---------------------------- MODULE Spec2Model ----------------------------
(***************************************************************************)
(* Conversation state machine of the equipment-rental agent                *)
(* (src/src/agent/graph.py, src/src/agent/nodes.py) together with the      *)
(* Telegram handlers that start a turn and deliver its reply               *)
(* (src/src/telegram/handlers.py) and the services the nodes call.         *)
(*                                                                         *)
(* Text is modelled as a sequence of lower-case words; a number occurring  *)
(* in a text is the word spelling it ("5", "21").  A string-valued field   *)
(* holds a sequence of words, the empty sequence standing for Python None  *)
(* (no path of the program stores an empty string in such a field).  A     *)
(* numeric field holds an integer, NoneNum standing for None.              *)
(***************************************************************************)
EXTENDS Integers, Sequences, FiniteSets, TLC

VARIABLES
    pc,        \* position of the turn: "idle", a node name, "except", "returned"
    state,     \* the state flowing through the graph (channel values)
    caller,    \* top-level values of the dict handed to process_message
    keys,      \* presence of the validated top-level keys in that dict
    path,      \* nodes executed so far in this turn, in order
    exc,       \* message of the exception raised by the graph run, or NoExc
    llm,       \* answers of the LLM field extractor for this turn's message
    db,        \* equipment catalog (rows of the equipment table)
    store,     \* state saved by the state manager, or NoState
    reply,     \* text sent to the user for the last finished turn
    turn,      \* number of turns started
    began,     \* values recorded when the current turn started
    redis_client,  \* "upstash" when the REST client is configured, else "none"
    redis_data,    \* entries of the remote key-value store, by conversation id
    memory_cache,  \* StateManager.memory_cache, by conversation id
    conversations, \* rows of the conversations table, oldest first
    now,           \* the clock, in seconds
    ops,           \* number of service operations performed
    rate_limit,    \* RateLimiter.memory_cache: the counters of the user
    call,          \* the last operation or function call, with its arguments
    result         \* what that call returned

agent_vars ==
    <<pc, state, caller, keys, path, exc, llm, db, store, reply, turn, began>>

service_vars ==
    <<redis_client, redis_data, memory_cache, conversations, now, ops,
      rate_limit>>

call_vars == <<call, result>>

vars == <<agent_vars, service_vars, call_vars>>

-----------------------------------------------------------------------------
(* Bounds of the model *)

MaxTurns == 2

-----------------------------------------------------------------------------
(* Values *)

None == <<>>
NoneNum == -1
NoExc == "no_exception"
NoState == [absent |-> TRUE]
NoReply == <<"no_reply">>
NoCall == [op |-> "none"]

\* the counters is_rate_limited assumes for a user it has no entry for
NoCounters ==
    [present |-> FALSE, minute |-> 0, hour |-> 0, last_minute |-> 0,
     last_hour |-> 0]

\* the persistence layer and the call record when they play no part
ServiceIdle ==
    /\ redis_client = "none"
    /\ redis_data = <<>>
    /\ memory_cache = <<>>
    /\ conversations = <<>>
    /\ now = 0
    /\ ops = 0
    /\ rate_limit = NoCounters

CallIdle ==
    /\ call = NoCall
    /\ result = NoState

\* langgraph's END sentinel, the value the routing functions return to stop
END == "__end__"

Stages ==
    {"greeting", "gathering_basic_info", "gathering_technical_info",
     "equipment_recommendation", "quote_generation", "quote_review",
     "scheduling", "completed", "escalated"}

Nodes ==
    {"message_router", "information_gatherer", "equipment_advisor",
     "quote_calculator", "conversation_manager", "escalation_handler"}

\* langgraph's default recursion_limit: the number of supersteps a single
\* invoke may take before it raises GraphRecursionError
RecursionLimit == 25

-----------------------------------------------------------------------------
(* Words and numbers *)

NumWords == {"0", "3", "5", "10", "21", "100"}

NumVal(w) ==
    CASE w = "0" -> 0
      [] w = "3" -> 3
      [] w = "5" -> 5
      [] w = "10" -> 10
      [] w = "21" -> 21
      [] w = "100" -> 100
      [] OTHER -> NoneNum

\* words of the vocabulary that contain a keyword of the family as a substring
quote_keywords ==
    {"cotización", "cotizar", "precio", "costo", "alquiler", "rentar",
     "interesado"}
technical_keywords ==
    {"altura", "andamio", "plataforma", "escalera", "metros", "kg",
     "especificaciones"}
contact_keywords == {"contacto", "teléfono", "email", "dirección"}

\* any(keyword in last_message for keyword in keywords)
AnyKeyword(message, keywords) ==
    \E i \in 1..Len(message) : message[i] \in keywords

\* words a unit alternative of the pattern matches at their start
\* (the patterns are not anchored at the end of the unit)
HeightUnits == {"metros", "metro", "m", "mts", "meses", "mantenimiento"}
WeightUnits == {"kg", "kilos", "toneladas", "t", "torres"}
DaysUnits == {"días", "día", "day", "days"}

\* re.search(pattern, message): the number of the first "<number> <unit>"
MatchPositions(message, units) ==
    {i \in 1..(Len(message) - 1) :
        message[i] \in NumWords /\ message[i + 1] \in units}

Min(S) == CHOOSE x \in S : \A y \in S : x <= y

ReSearch(message, units) ==
    IF MatchPositions(message, units) = {}
    THEN NoneNum
    ELSE NumVal(message[Min(MatchPositions(message, units))])


-----------------------------------------------------------------------------
(* Records of the conversation state (src/src/agent/state.py) *)

EquipmentNeed ==
    [equipment_type |-> None, height_needed |-> NoneNum,
     capacity_needed |-> NoneNum, quantity |-> NoneNum]

ProjectDetails ==
    [project_type |-> None, location |-> None, duration_days |-> NoneNum]

SiteConditions == [surface_type |-> None]

ClientInfo == [phone |-> None, email |-> None]

ConversationMessage(role, content) == [role |-> role, content |-> content]

\* Python truth value of an Optional number: None and 0 are false
Truthy(n) == n # NoneNum /\ n # 0

-----------------------------------------------------------------------------
(* Field extraction (AgentNodes, src/src/agent/nodes.py) *)

fields_to_extract ==
    <<"project_type", "location", "duration", "height", "equipment_type",
      "surface_type">>

\* the reply of the model, stripped; "none" or an empty reply is no value
_extract_with_llm(info_to_extract, answers) ==
    IF answers[info_to_extract] = <<"none">> \/ Len(answers[info_to_extract]) = 0
    THEN None
    ELSE answers[info_to_extract]

\* re.search(r'\d+', value): the first number in the reply
FirstNumber(value) ==
    IF \E i \in 1..Len(value) : value[i] \in NumWords
    THEN NumVal(value[Min({i \in 1..Len(value) : value[i] \in NumWords})])
    ELSE NoneNum

\* float(value) succeeds only when the whole reply is a number
IsFloat(value) == Len(value) = 1 /\ value[1] \in NumWords

\* variant that puts a new need record in front on every write
NeedsForWrite_always_new(s) == <<EquipmentNeed>> \o s.equipment_needs

\* state["equipment_needs"] with a first need record to write to
NeedsForWrite(s) ==
    IF s.equipment_needs = <<>> THEN <<EquipmentNeed>> ELSE s.equipment_needs

_update_state_with_extraction(s, info_key, value) ==
    CASE info_key = "project_type" ->
            [s EXCEPT !.project_details.project_type = value]
      [] info_key = "location" ->
            [s EXCEPT !.project_details.location = value]
      [] info_key = "duration" ->
            IF FirstNumber(value) # NoneNum
            THEN [s EXCEPT !.project_details.duration_days = FirstNumber(value)]
            ELSE s
      [] info_key = "height" ->
            IF IsFloat(value)
            THEN [s EXCEPT !.equipment_needs =
                      [NeedsForWrite(s) EXCEPT ![1].height_needed = NumVal(value[1])]]
            ELSE s
      [] info_key = "equipment_type" ->
            [s EXCEPT !.equipment_needs =
                [NeedsForWrite(s) EXCEPT ![1].equipment_type = value]]
      [] info_key = "surface_type" ->
            [s EXCEPT !.site_conditions.surface_type = value]
      [] OTHER -> s

PhoneWords == {"3001234567"}
EmailWords == {"ana@obra.co"}

FirstWordIn(message, words) ==
    IF \E i \in 1..Len(message) : message[i] \in words
    THEN <<message[Min({i \in 1..Len(message) : message[i] \in words})]>>
    ELSE None

\* the five pattern extractions, each written whenever its pattern matches
_extract_information_from_message(s, message) ==
    LET height == ReSearch(message, HeightUnits)
        weight == ReSearch(message, WeightUnits)
        days == ReSearch(message, DaysUnits)
        phone == FirstWordIn(message, PhoneWords)
        email == FirstWordIn(message, EmailWords)
        s1 == IF height # NoneNum
              THEN [s EXCEPT !.equipment_needs =
                       [NeedsForWrite(s) EXCEPT ![1].height_needed = height]]
              ELSE s
        s2 == IF weight # NoneNum
              THEN [s1 EXCEPT !.equipment_needs =
                       [NeedsForWrite(s1) EXCEPT ![1].capacity_needed = weight]]
              ELSE s1
        s3 == IF days # NoneNum
              THEN [s2 EXCEPT !.project_details.duration_days = days]
              ELSE s2
        s4 == IF phone # None
              THEN [s3 EXCEPT !.client_info.phone = phone]
              ELSE s3
    IN  IF email # None THEN [s4 EXCEPT !.client_info.email = email] ELSE s4

\* the loop over fields_to_extract, from field number i on
RECURSIVE ExtractFields(_, _, _)
ExtractFields(s, answers, i) ==
    IF i > Len(fields_to_extract)
    THEN s
    ELSE LET extracted_value == _extract_with_llm(fields_to_extract[i], answers)
         IN  ExtractFields(
                 IF extracted_value # None
                 THEN _update_state_with_extraction(s, fields_to_extract[i],
                                                    extracted_value)
                 ELSE s,
                 answers, i + 1)

_extract_all_possible_info(s, message, answers) ==
    _extract_information_from_message(ExtractFields(s, answers, 1), message)

_identify_missing_information(s) ==
    IF s.conversation_stage = "gathering_basic_info"
    THEN (IF s.project_details.project_type = None
          THEN <<"project_type">> ELSE <<>>)
         \o (IF s.project_details.location = None
             THEN <<"location">> ELSE <<>>)
         \o (IF ~Truthy(s.project_details.duration_days)
             THEN <<"duration">> ELSE <<>>)
    ELSE IF s.conversation_stage = "gathering_technical_info"
    THEN (IF s.equipment_needs = <<>>
             \/ ~Truthy(s.equipment_needs[1].height_needed)
          THEN <<"height">> ELSE <<>>)
         \o (IF s.equipment_needs = <<>>
                \/ s.equipment_needs[1].equipment_type = None
             THEN <<"equipment_type">> ELSE <<>>)
         \o (IF s.site_conditions.surface_type = None
             THEN <<"surface_type">> ELSE <<>>)
    ELSE <<>>

_generate_contextual_question(missing_info) ==
    CASE missing_info = "project_type" ->
            <<"¿Qué tipo de trabajo vas a realizar?">>
      [] missing_info = "location" ->
            <<"¿En qué ciudad o zona será el proyecto?">>
      [] missing_info = "duration" ->
            <<"¿Por cuántos días aproximadamente necesitas el equipo?">>
      [] missing_info = "height" ->
            <<"¿A qué altura necesitas llegar?">>
      [] missing_info = "equipment_type" ->
            <<"¿Qué tipo de equipo prefieres?">>
      [] missing_info = "surface_type" ->
            <<"¿Qué tipo de superficie tienes en el lugar?">>
      [] OTHER -> <<"¿Podrías darme más detalles sobre tu proyecto?">>

\* variant that puts the new message in front of the older ones
_add_message_to_history_in_front(s, role, content) ==
    [s EXCEPT !.conversation_history =
        <<ConversationMessage(role, content)>> \o s.conversation_history]

_add_message_to_history(s, role, content) ==
    [s EXCEPT !.conversation_history =
        Append(s.conversation_history, ConversationMessage(role, content))]


-----------------------------------------------------------------------------
(* Equipment recommender (EquipmentService,                               *)
(* src/src/services/equipment_service.py).  Rows of the equipment table   *)
(* are records; the catalog is the sequence of rows in the order the      *)
(* query returns them.  Scores are fractions num/den with den > 0.        *)

Row(id, type, h, c, daily, weekly, monthly, qty, avail) ==
    [id |-> id, equipment_type |-> type, max_height |-> h, max_capacity |-> c,
     daily_rate |-> daily, weekly_rate |-> weekly, monthly_rate |-> monthly,
     quantity_available |-> qty, is_available |-> avail]

\* the rows create_sample_equipment_data inserts
SampleCatalog ==
    <<Row("andamio_10", <<"andamio">>, 10, 300, 45, 270, 1000, 5, TRUE),
      Row("tijera_8", <<"plataforma_elevadora">>, 8, 227, 85, 510, 1900, 3, TRUE),
      Row("escalera_6", <<"escalera">>, 6, 136, 15, 90, 350, 10, TRUE),
      Row("torre_8", <<"andamio">>, 8, 200, 55, 330, 1200, 4, TRUE),
      Row("articulada_12", <<"plataforma_elevadora">>, 12, 227, 125, 750, 2800, 2, TRUE)>>

surface_compatibility(equipment_type) ==
    CASE equipment_type = <<"andamio">> ->
            {<<"concreto">>, <<"asfalto">>, <<"baldosa">>}
      [] equipment_type = <<"plataforma_elevadora">> ->
            {<<"concreto">>, <<"asfalto">>}
      [] equipment_type = <<"escalera">> ->
            {<<"concreto">>, <<"asfalto">>, <<"baldosa">>, <<"cesped">>}
      [] OTHER -> {}

_is_suitable_for_surface(equipment, surface_type) ==
    surface_type \in surface_compatibility(equipment.equipment_type)

OrOne(n) == IF Truthy(n) THEN n ELSE 1

\* subtotal of one line, in units of 1/210 of the currency unit
\* (duration_days / 30 and duration_days / 7 are exact in that unit)
_calculate_equipment_subtotal(equipment, duration_days, quantity) ==
    (IF duration_days >= 30 /\ Truthy(equipment.monthly_rate)
     THEN equipment.monthly_rate * duration_days * 7
     ELSE IF duration_days >= 7 /\ Truthy(equipment.weekly_rate)
     THEN equipment.weekly_rate * duration_days * 30
     ELSE equipment.daily_rate * duration_days * 210) * quantity

\* the score as the fraction ScoreNum / ScoreDen
ScoreDen(equipment) ==
    OrOne(equipment.max_height) * OrOne(equipment.max_capacity)

ScoreNum(equipment, need, conditions) ==
    LET den == ScoreDen(equipment)
        height == IF Truthy(need.height_needed) /\ Truthy(equipment.max_height)
                  THEN IF equipment.max_height >= need.height_needed
                       THEN need.height_needed * 30 * OrOne(equipment.max_capacity)
                       ELSE (0 - 20) * den
                  ELSE 0
        capacity == IF Truthy(need.capacity_needed) /\ Truthy(equipment.max_capacity)
                    THEN IF equipment.max_capacity >= need.capacity_needed
                         THEN need.capacity_needed * 25 * OrOne(equipment.max_height)
                         ELSE (0 - 15) * den
                    ELSE 0
        type == IF need.equipment_type # None
                   /\ equipment.equipment_type = need.equipment_type
                THEN 20 * den ELSE 0
        surface == IF conditions.surface_type # None
                      /\ _is_suitable_for_surface(equipment, conditions.surface_type)
                   THEN 15 * den ELSE 0
        stock == IF equipment.quantity_available >= OrOne(need.quantity)
                 THEN 10 * den ELSE 0
        score == height + capacity + type + surface + stock
    IN  IF score < 0 THEN 0 ELSE score

\* the query: available rows that meet every stated filter, in row order
Qualifies(equipment, need) ==
    /\ equipment.is_available
    /\ equipment.quantity_available > 0
    /\ (Truthy(need.height_needed) =>
            equipment.max_height >= need.height_needed)
    /\ (Truthy(need.capacity_needed) =>
            equipment.max_capacity >= need.capacity_needed)
    /\ (need.equipment_type # None =>
            equipment.equipment_type = need.equipment_type)

RECURSIVE SelectRows(_, _)
SelectRows(rows, need) ==
    IF rows = <<>>
    THEN <<>>
    ELSE (IF Qualifies(Head(rows), need) THEN <<Head(rows)>> ELSE <<>>)
         \o SelectRows(Tail(rows), need)

Recommendation(equipment, need, conditions, project) ==
    [id |-> equipment.id,
     equipment_type |-> equipment.equipment_type,
     max_height |-> equipment.max_height,
     max_capacity |-> equipment.max_capacity,
     quantity |-> OrOne(need.quantity),
     subtotal |-> _calculate_equipment_subtotal(
                      equipment, OrOne(project.duration_days), OrOne(need.quantity)),
     score_num |-> ScoreNum(equipment, need, conditions),
     score_den |-> ScoreDen(equipment)]

\* a scores strictly higher than b
Higher(a, b) == a.score_num * b.score_den > b.score_num * a.score_den

\* variant: the sort in ascending order of the score
SortByScore_ascending(recs) ==
    LET rank(i) == Cardinality({j \in 1..Len(recs) :
                       \/ Higher(recs[i], recs[j])
                       \/ (~Higher(recs[j], recs[i]) /\ j < i)})
    IN  [k \in 1..Len(recs) |->
            recs[CHOOSE i \in 1..Len(recs) : rank(i) = k - 1]]

\* list.sort(key=score, reverse=True): stable, equal scores keep their order
SortByScore(recs) ==
    LET rank(i) == Cardinality({j \in 1..Len(recs) :
                       \/ Higher(recs[j], recs[i])
                       \/ (~Higher(recs[i], recs[j]) /\ j < i)})
    IN  [k \in 1..Len(recs) |->
            recs[CHOOSE i \in 1..Len(recs) : rank(i) = k - 1]]

FirstThree(recs) == IF Len(recs) > 3 THEN SubSeq(recs, 1, 3) ELSE recs

\* variant that takes the last need of the list as the primary one
get_recommendations_by_last_need(equipment_needs, site_conditions, project_details, rows) ==
    IF equipment_needs = <<>>
    THEN <<>>
    ELSE LET primary_need == equipment_needs[Len(equipment_needs)]
             equipment_list == SelectRows(rows, primary_need)
             recommendations ==
                 [i \in 1..Len(equipment_list) |->
                     Recommendation(equipment_list[i], primary_need,
                                    site_conditions, project_details)]
         IN  FirstThree(SortByScore(recommendations))

get_recommendations(equipment_needs, site_conditions, project_details, rows) ==
    IF equipment_needs = <<>>
    THEN <<>>
    ELSE LET primary_need == equipment_needs[1]
             equipment_list == SelectRows(rows, primary_need)
             recommendations ==
                 [i \in 1..Len(equipment_list) |->
                     Recommendation(equipment_list[i], primary_need,
                                    site_conditions, project_details)]
         IN  FirstThree(SortByScore(recommendations))


-----------------------------------------------------------------------------
(* Nodes of the graph (AgentNodes, src/src/agent/nodes.py): each operator  *)
(* gives the state the node returns.                                        *)

support_phone == "+1234567890"
support_email == "support@rentalheights.com"

stage_mapping(current_stage) ==
    CASE current_stage = "gathering_basic_info" -> "information_gatherer"
      [] current_stage = "gathering_technical_info" -> "information_gatherer"
      [] current_stage = "equipment_recommendation" -> "equipment_advisor"
      [] current_stage = "quote_generation" -> "quote_calculator"
      [] current_stage = "quote_review" -> "conversation_manager"
      [] OTHER -> "conversation_manager"

\* variant that looks for technical words before quote words
message_router_technical_first(s) ==
    LET last_message == s.last_message
        current_stage == s.conversation_stage
    IN  IF AnyKeyword(last_message, technical_keywords)
        THEN [s EXCEPT !.next_action = "information_gatherer",
                       !.conversation_stage = "gathering_technical_info"]
        ELSE IF AnyKeyword(last_message, quote_keywords)
        THEN [s EXCEPT !.next_action = "information_gatherer",
                       !.conversation_stage = "gathering_basic_info"]
        ELSE IF AnyKeyword(last_message, contact_keywords)
        THEN [s EXCEPT !.next_action = "conversation_manager"]
        ELSE IF current_stage = "greeting"
        THEN [s EXCEPT !.next_action = "information_gatherer",
                       !.conversation_stage = "gathering_basic_info"]
        ELSE [s EXCEPT !.next_action = stage_mapping(current_stage)]

message_router(s) ==
    LET last_message == s.last_message
        current_stage == s.conversation_stage
    IN  IF AnyKeyword(last_message, quote_keywords)
        THEN [s EXCEPT !.next_action = "information_gatherer",
                       !.conversation_stage = "gathering_basic_info"]
        ELSE IF AnyKeyword(last_message, technical_keywords)
        THEN [s EXCEPT !.next_action = "information_gatherer",
                       !.conversation_stage = "gathering_technical_info"]
        ELSE IF AnyKeyword(last_message, contact_keywords)
        THEN [s EXCEPT !.next_action = "conversation_manager"]
        ELSE IF current_stage = "greeting"
        THEN [s EXCEPT !.next_action = "information_gatherer",
                       !.conversation_stage = "gathering_basic_info"]
        ELSE [s EXCEPT !.next_action = stage_mapping(current_stage)]

BasicDone ==
    <<"¡Perfecto! Ahora necesito algunos detalles técnicos para recomendarte el mejor equipo.">>
TechnicalDone ==
    <<"¡Excelente! Con esta información puedo recomendarte los equipos más adecuados.">>

\* variant that closes the conversation once nothing is missing
information_gatherer_completing(s, answers) ==
    LET s1 == _extract_all_possible_info(s, s.last_message, answers)
        missing_info == _identify_missing_information(s1)
    IN  IF missing_info # <<>>
        THEN [_add_message_to_history(s1, "assistant",
                  _generate_contextual_question(missing_info[1]))
                EXCEPT !.next_action = "information_gatherer"]
        ELSE [_add_message_to_history(s1, "assistant", TechnicalDone)
                EXCEPT !.conversation_stage = "completed",
                       !.next_action = "equipment_advisor"]

information_gatherer(s, answers) ==
    LET s1 == _extract_all_possible_info(s, s.last_message, answers)
        missing_info == _identify_missing_information(s1)
    IN  IF missing_info # <<>>
        THEN [_add_message_to_history(s1, "assistant",
                  _generate_contextual_question(missing_info[1]))
                EXCEPT !.next_action = "information_gatherer"]
        ELSE IF s1.conversation_stage = "gathering_basic_info"
        THEN [_add_message_to_history(s1, "assistant", BasicDone)
                EXCEPT !.conversation_stage = "gathering_technical_info",
                       !.next_action = "information_gatherer"]
        ELSE [_add_message_to_history(s1, "assistant", TechnicalDone)
                EXCEPT !.conversation_stage = "equipment_recommendation",
                       !.next_action = "equipment_advisor"]

NoEquipment ==
    <<"Lo siento, no tengo equipos disponibles que cumplan exactamente con tus requisitos.",
      "Te voy a conectar con uno de nuestros especialistas para revisar opciones alternativas.">>

\* the text built from the recommendations: their names, in order
_format_equipment_recommendations(recommendations) ==
    <<"Basado en tus necesidades, te recomiendo:">>
    \o [i \in 1..Len(recommendations) |-> recommendations[i].id]

\* variant that apologises for an empty list but does not ask for a human
equipment_advisor_without_escalation(s, rows) ==
    LET recommendations ==
            get_recommendations(s.equipment_needs, s.site_conditions,
                                s.project_details, rows)
    IN  IF recommendations = <<>>
        THEN [_add_message_to_history(s, "assistant", NoEquipment)
                EXCEPT !.next_action = "conversation_manager"]
        ELSE [_add_message_to_history(s, "assistant",
                  _format_equipment_recommendations(recommendations))
                EXCEPT !.selected_equipment = recommendations,
                       !.conversation_stage = "quote_generation",
                       !.next_action = "quote_calculator"]

equipment_advisor(s, rows) ==
    LET recommendations ==
            get_recommendations(s.equipment_needs, s.site_conditions,
                                s.project_details, rows)
    IN  IF recommendations = <<>>
        THEN [_add_message_to_history(s, "assistant", NoEquipment)
                EXCEPT !.needs_human_intervention = TRUE,
                       !.escalation_reason =
                           <<"No equipment available for requirements">>,
                       !.next_action = "escalation_handler"]
        ELSE [_add_message_to_history(s, "assistant",
                  _format_equipment_recommendations(recommendations))
                EXCEPT !.selected_equipment = recommendations,
                       !.conversation_stage = "quote_generation",
                       !.next_action = "quote_calculator"]

_determine_next_action_from_response(s) ==
    CASE s.conversation_stage = "greeting" -> "information_gatherer"
      [] s.conversation_stage = "gathering_basic_info" -> "information_gatherer"
      [] s.conversation_stage = "gathering_technical_info" -> "equipment_advisor"
      [] s.conversation_stage = "equipment_recommendation" -> "quote_calculator"
      [] s.conversation_stage = "quote_generation" -> "conversation_manager"
      [] s.conversation_stage = "quote_review" -> "conversation_manager"
      [] OTHER -> "conversation_manager"

\* the free text the LLM returns for the conversation manager
LlmResponse == <<"respuesta del asistente">>

conversation_manager(s) ==
    [_add_message_to_history(s, "assistant", LlmResponse)
        EXCEPT !.next_action = _determine_next_action_from_response(s)]

HandOff ==
    <<"Te voy a conectar con uno de nuestros especialistas que podrá ayudarte mejor con tu consulta.",
      support_phone, support_email,
      "Mientras tanto, ¿hay algo más en lo que pueda ayudarte?">>

\* variant that hands off and then clears the intervention flag
escalation_handler_clearing_flag(s) ==
    [_add_message_to_history(s, "assistant", HandOff)
        EXCEPT !.conversation_stage = "escalated",
               !.needs_human_intervention = FALSE,
               !.next_action = "conversation_manager"]

escalation_handler(s) ==
    [_add_message_to_history(s, "assistant", HandOff)
        EXCEPT !.conversation_stage = "escalated",
               !.needs_human_intervention = TRUE,
               !.next_action = "conversation_manager"]

-----------------------------------------------------------------------------
(* Routing (RentalAgentGraph, src/src/agent/graph.py) *)

\* variant that follows next_action whatever the intervention flag says
_route_from_router_ignoring_flag(s) == s.next_action

_route_from_router(s) ==
    IF s.needs_human_intervention THEN "escalation_handler" ELSE s.next_action

_route_from_information_gatherer(s) ==
    IF s.next_action = "end" THEN END
    ELSE IF s.needs_human_intervention THEN "escalation_handler"
    ELSE IF s.conversation_stage = "completed" THEN END
    ELSE s.next_action

_route_from_equipment_advisor(s) ==
    IF s.next_action = "end" THEN END
    ELSE IF s.needs_human_intervention THEN "escalation_handler"
    ELSE IF s.conversation_stage = "completed" THEN END
    ELSE s.next_action

_route_from_quote_calculator(s) ==
    IF s.next_action = "end" THEN END
    ELSE IF s.needs_human_intervention THEN "escalation_handler"
    ELSE IF s.conversation_stage = "completed" THEN END
    ELSE s.next_action

\* variant that hands every reply over to escalation_handler
_route_from_conversation_manager_escalating(s) ==
    IF s.next_action = "end" THEN END ELSE "escalation_handler"

_route_from_conversation_manager(s) ==
    IF s.next_action = "end" THEN END
    ELSE IF s.needs_human_intervention THEN "escalation_handler"
    ELSE IF s.conversation_stage = "completed" THEN END
    ELSE s.next_action

\* variant without the test of the stage: next_action decides alone
_route_from_escalation_handler_following_next_action(s) ==
    IF s.next_action = "end" THEN END
    ELSE IF s.next_action = "conversation_manager" THEN "conversation_manager"
    ELSE END

_route_from_escalation_handler(s) ==
    IF s.next_action = "end" THEN END
    ELSE IF s.conversation_stage = "completed"
            \/ s.conversation_stage = "escalated" THEN END
    ELSE IF s.next_action = "conversation_manager" THEN "conversation_manager"
    ELSE END

\* the path maps given to add_conditional_edges in _build_graph
Edges(node) ==
    CASE node = "message_router" ->
            {"information_gatherer", "equipment_advisor", "quote_calculator",
             "conversation_manager", "escalation_handler", "end"}
      [] node = "information_gatherer" ->
            {"information_gatherer", "equipment_advisor",
             "conversation_manager", "escalation_handler", "end"}
      [] node = "equipment_advisor" ->
            {"quote_calculator", "escalation_handler", "conversation_manager",
             "end"}
      [] node = "quote_calculator" ->
            {"conversation_manager", "escalation_handler", "end"}
      [] node = "conversation_manager" ->
            {"information_gatherer", "equipment_advisor", "quote_calculator",
             "escalation_handler", "end"}
      [] node = "escalation_handler" -> {"conversation_manager", "end"}

Route(node, s) ==
    CASE node = "message_router" -> _route_from_router(s)
      [] node = "information_gatherer" -> _route_from_information_gatherer(s)
      [] node = "equipment_advisor" -> _route_from_equipment_advisor(s)
      [] node = "quote_calculator" -> _route_from_quote_calculator(s)
      [] node = "conversation_manager" -> _route_from_conversation_manager(s)
      [] node = "escalation_handler" -> _route_from_escalation_handler(s)

KeyError == "KeyError"

\* where the graph goes after node returned s: a node, END (a routing
\* function that returns END, or the key "end", stops the run), or KeyError
\* when the routing function names a key its path map does not have
Destination(node, s) ==
    IF Route(node, s) = END \/ Route(node, s) = "end" THEN END
    ELSE IF Route(node, s) \in Edges(node) THEN Route(node, s)
    ELSE KeyError


-----------------------------------------------------------------------------
(* Inputs the model draws from *)

Messages ==
    {<<"hola">>,
     <<"quiero", "cotizar">>,
     <<"necesito", "5", "metros">>,
     <<"contacto">>,
     <<"el", "piso", "es", "de", "concreto">>,
     <<"por", "10", "días">>,
     <<"son", "100", "metros">>}

NoAnswers == [f \in {fields_to_extract[i] : i \in 1..6} |-> <<"none">>]

BasicAnswers ==
    [NoAnswers EXCEPT !["project_type"] = <<"mantenimiento">>,
                      !["location"] = <<"medellín">>,
                      !["duration"] = <<"21">>]

TechnicalAnswers ==
    [NoAnswers EXCEPT !["height"] = <<"5">>,
                      !["equipment_type"] = <<"andamio">>,
                      !["surface_type"] = <<"concreto">>]

AllAnswers ==
    [BasicAnswers EXCEPT !["height"] = <<"5">>,
                         !["equipment_type"] = <<"andamio">>,
                         !["surface_type"] = <<"concreto">>]

LLMAnswers == {NoAnswers, BasicAnswers, TechnicalAnswers, AllAnswers}

Catalogs == {SampleCatalog, <<>>}

RequiredFields ==
    {"conversation_stage", "conversation_history", "last_message",
     "project_details", "client_info"}

AllPresent == [f \in RequiredFields |-> "present"]

-----------------------------------------------------------------------------
(* Conversation service (src/src/services/conversation_service.py) *)

_create_initial_state ==
    [conversation_history |-> <<>>,
     last_message |-> <<>>,
     client_info |-> ClientInfo,
     project_details |-> ProjectDetails,
     equipment_needs |-> <<>>,
     site_conditions |-> SiteConditions,
     selected_equipment |-> <<>>,
     pricing_info |-> <<>>,
     conversation_stage |-> "greeting",
     next_action |-> "None",
     needs_human_intervention |-> FALSE,
     escalation_reason |-> None]

\* the stored state of the active conversation, or a new state
create_or_get_conversation ==
    IF store = NoState THEN _create_initial_state ELSE store

-----------------------------------------------------------------------------
(* Turn boundary (RentalAgentGraph.process_message / aprocess_message) *)

_validate_state(k) ==
    /\ k["conversation_stage"] # "absent"
    /\ k["conversation_history"] # "absent"
    /\ k["last_message"] # "absent"
    /\ k["project_details"] = "present"
    /\ k["client_info"] = "present"

\* the state returned when validation fails: only the flag and the reason
invalid_state_fallback(s) ==
    [s EXCEPT !.needs_human_intervention = TRUE,
              !.escalation_reason = <<"Invalid state structure">>]

\* the try block up to graph.invoke: validation, then the entry node
ProcessMessage ==
    /\ pc = "process_message"
    /\ IF ~_validate_state(keys)
       THEN /\ state' = invalid_state_fallback(state)
            /\ pc' = "returned"
            /\ caller' = caller
       ELSE /\ state' = state
            /\ caller' = state
            /\ pc' = "message_router"
    /\ UNCHANGED <<keys, path, exc, llm, db, store, reply, turn, began>>

\* the state the except block returns for exception e.  The dict the caller
\* passed (c) keeps its own top-level values, whatever the nodes assigned in
\* theirs; the objects both refer to (history, project details, client
\* info, site conditions, a non-empty list of needs) keep what the nodes
\* did to them (s)
\* variant that records the error but leaves the stage as the caller had it
technical_error_fallback_keeping_stage(s, c, e) ==
    [s EXCEPT !.needs_human_intervention = TRUE,
              !.escalation_reason = <<"Technical error:", e>>,
              !.conversation_stage = c.conversation_stage,
              !.next_action = "end",
              !.selected_equipment = c.selected_equipment,
              !.pricing_info = c.pricing_info,
              !.equipment_needs =
                  IF c.equipment_needs = <<>> THEN <<>> ELSE s.equipment_needs]

technical_error_fallback(s, c, e) ==
    [s EXCEPT !.needs_human_intervention = TRUE,
              !.escalation_reason = <<"Technical error:", e>>,
              !.conversation_stage = "escalated",
              !.next_action = "end",
              !.selected_equipment = c.selected_equipment,
              !.pricing_info = c.pricing_info,
              !.equipment_needs =
                  IF c.equipment_needs = <<>> THEN <<>> ELSE s.equipment_needs]

ExceptFallback ==
    /\ pc = "except"
    /\ state' = technical_error_fallback(state, caller, exc)
    /\ pc' = "returned"
    /\ UNCHANGED <<caller, keys, path, exc, llm, db, store, reply, turn, began>>

-----------------------------------------------------------------------------
(* One superstep of graph.invoke: the node at pc runs and its routing      *)
(* function picks the next one.                                             *)

\* what the node's in-place writes leave behind when it raises afterwards
InPlace(s, after) ==
    [s EXCEPT !.project_details = after.project_details,
              !.client_info = after.client_info,
              !.site_conditions = after.site_conditions,
              !.equipment_needs =
                  IF s.equipment_needs = <<>>
                  THEN <<>> ELSE after.equipment_needs]

Raise(message, s) ==
    /\ pc' = "except"
    /\ exc' = message
    /\ state' = s
    /\ path' = path

\* the node returned s: record it and follow its conditional edge
Goto(node, s) ==
    /\ state' = s
    /\ path' = Append(path, node)
    /\ IF Destination(node, s) = KeyError
       THEN pc' = "except" /\ exc' = KeyError
       ELSE IF Destination(node, s) = END
       THEN pc' = "returned" /\ exc' = exc
       ELSE pc' = Destination(node, s) /\ exc' = exc

\* graph.invoke stops with GraphRecursionError instead of running a node
\* once RecursionLimit supersteps were taken
Overrun == Len(path) >= RecursionLimit

\* a node appends to conversation_history, which fails on None
Step(node, s) ==
    IF keys["conversation_history"] = "null"
       /\ s.conversation_history # state.conversation_history
    THEN Raise("AttributeError", InPlace(state, s))
    ELSE Goto(node, s)

MessageRouter ==
    /\ pc = "message_router"
    /\ IF Overrun
       THEN Raise("GraphRecursionError", state)
       ELSE IF keys["last_message"] = "null"
       THEN Raise("AttributeError", state)
       ELSE Step("message_router", message_router(state))
    /\ UNCHANGED <<caller, keys, llm, db, store, reply, turn, began>>

\* the LLM request of the field extractor may fail
InformationGatherer ==
    /\ pc = "information_gatherer"
    /\ IF Overrun
       THEN Raise("GraphRecursionError", state)
       ELSE \E llm_ok \in BOOLEAN :
               IF llm_ok
               THEN Step("information_gatherer",
                         information_gatherer(state, llm))
               ELSE Raise("APIConnectionError", state)
    /\ UNCHANGED <<caller, keys, llm, db, store, reply, turn, began>>

\* the catalog query may fail
EquipmentAdvisor ==
    /\ pc = "equipment_advisor"
    /\ IF Overrun
       THEN Raise("GraphRecursionError", state)
       ELSE \E db_ok \in BOOLEAN :
               IF db_ok
               THEN Step("equipment_advisor", equipment_advisor(state, db))
               ELSE Raise("OperationalError", state)
    /\ UNCHANGED <<caller, keys, llm, db, store, reply, turn, began>>

\* calculate_quote returns a PricingInfo object, and _format_quote_response
\* subscripts it (pricing_info['equipment_subtotal']): the node raises
\* TypeError before it appends its message or writes stage and next_action
QuoteCalculator ==
    /\ pc = "quote_calculator"
    /\ IF Overrun
       THEN Raise("GraphRecursionError", state)
       ELSE Raise("TypeError", state)
    /\ UNCHANGED <<caller, keys, llm, db, store, reply, turn, began>>

\* the LLM request for the reply may fail
ConversationManager ==
    /\ pc = "conversation_manager"
    /\ IF Overrun
       THEN Raise("GraphRecursionError", state)
       ELSE \E llm_ok \in BOOLEAN :
               IF llm_ok
               THEN Step("conversation_manager", conversation_manager(state))
               ELSE Raise("APIConnectionError", state)
    /\ UNCHANGED <<caller, keys, llm, db, store, reply, turn, began>>

EscalationHandler ==
    /\ pc = "escalation_handler"
    /\ IF Overrun
       THEN Raise("GraphRecursionError", state)
       ELSE Step("escalation_handler", escalation_handler(state))
    /\ UNCHANGED <<caller, keys, llm, db, store, reply, turn, began>>

GraphStep ==
    \/ MessageRouter
    \/ InformationGatherer
    \/ EquipmentAdvisor
    \/ QuoteCalculator
    \/ ConversationManager
    \/ EscalationHandler


-----------------------------------------------------------------------------
(* Telegram handlers (TelegramHandlers, src/src/telegram/handlers.py) *)

QuoteText == <<"quiero", "una", "cotización">>

Began(handler, s) == [handler |-> handler, state |-> s]

StartTurn(handler, s, answers) ==
    /\ state' = s
    /\ caller' = s
    /\ pc' = "process_message"
    /\ llm' = answers
    /\ path' = <<>>
    /\ exc' = NoExc
    /\ turn' = turn + 1
    /\ began' = Began(handler, s)
    /\ UNCHANGED <<keys, db, store, reply>>

\* handle_message up to the call of aprocess_message
HandleMessage ==
    /\ pc = "idle"
    /\ turn < MaxTurns
    /\ \E message_text \in Messages, answers \in LLMAnswers :
          LET s == create_or_get_conversation
          IN  StartTurn("handle_message",
                        [s EXCEPT !.last_message = message_text,
                                  !.conversation_history =
                                      Append(s.conversation_history,
                                             ConversationMessage("user", message_text))],
                        answers)

\* quote_command up to the call of aprocess_message
QuoteCommand ==
    /\ pc = "idle"
    /\ turn < MaxTurns
    /\ \E answers \in LLMAnswers :
          LET s == create_or_get_conversation
          IN  StartTurn("quote_command",
                        [s EXCEPT !.conversation_stage = "gathering_basic_info",
                                  !.last_message = QuoteText],
                        answers)

DefaultReply == <<"Disculpa, no entendí. ¿Podrías repetirlo?">>
DefaultQuoteReply ==
    <<"¡Perfecto! Vamos a preparar tu cotización. ¿Qué tipo de trabajo vas a realizar?">>

\* next(msg for msg in reversed(history) if msg["role"] == "assistant")
LastAssistant(history) ==
    LET at == {i \in 1..Len(history) : history[i].role = "assistant"}
    IN  IF at = {} THEN DefaultReply
        ELSE history[CHOOSE i \in at : \A j \in at : j <= i].content

ResponseText(handler, history) ==
    IF handler = "handle_message"
    THEN LastAssistant(history)
    ELSE IF history # <<>> THEN history[Len(history)].content
    ELSE DefaultQuoteReply

\* StateManager.save_state: the store keeps the state, or the request to
\* the store fails (the client swallows the error) and the old entry stays
save_state(saved, s) == IF saved THEN s ELSE store

\* the rest of the handler: pick the reply, send it, save the state
Deliver ==
    /\ pc = "returned"
    /\ reply' = ResponseText(began.handler, state.conversation_history)
    /\ \E saved \in BOOLEAN : store' = save_state(saved, state)
    /\ pc' = "idle"
    /\ UNCHANGED <<state, caller, keys, path, exc, llm, db, turn, began>>

-----------------------------------------------------------------------------
(* The bot: conversations started by the handlers *)

Init ==
    /\ pc = "idle"
    /\ state = _create_initial_state
    /\ caller = _create_initial_state
    /\ keys = AllPresent
    /\ path = <<>>
    /\ exc = NoExc
    /\ llm = NoAnswers
    /\ db \in Catalogs
    /\ store = NoState
    /\ reply = NoReply
    /\ turn = 0
    /\ began = Began("none", _create_initial_state)
    /\ ServiceIdle
    /\ CallIdle

Next ==
    /\ \/ HandleMessage
       \/ QuoteCommand
       \/ ProcessMessage
       \/ GraphStep
       \/ ExceptFallback
       \/ Deliver
    /\ UNCHANGED <<service_vars, call_vars>>

Spec == Init /\ [][Next]_vars


-----------------------------------------------------------------------------
(* One turn: process_message called with a state of the caller's making *)

EmptyData == _create_initial_state

BasicData ==
    [EmptyData EXCEPT !.project_details =
        [project_type |-> <<"mantenimiento">>, location |-> <<"medellín">>,
         duration_days |-> 10]]

FullData ==
    [BasicData EXCEPT
        !.equipment_needs =
            <<[EquipmentNeed EXCEPT !.equipment_type = <<"andamio">>,
                                    !.height_needed = 5]>>,
        !.site_conditions = [surface_type |-> <<"concreto">>]]

TallData == [FullData EXCEPT !.equipment_needs[1].height_needed = 100]

DataProfiles == {EmptyData, BasicData, FullData, TallData}

\* one of the validated keys missing or None, or none of them
KeyConfigs ==
    {AllPresent}
    \cup {[AllPresent EXCEPT ![f] = d] :
             f \in RequiredFields, d \in {"null", "absent"}}

InputState(data, stage, nhi, message_text) ==
    [data EXCEPT
        !.conversation_stage = stage,
        !.needs_human_intervention = nhi,
        !.escalation_reason = IF nhi THEN <<"Usuario solicita escalación">> ELSE None,
        !.last_message = message_text,
        !.conversation_history = <<ConversationMessage("user", message_text)>>]

TurnInit ==
    /\ pc = "process_message"
    /\ keys \in KeyConfigs
    /\ llm \in LLMAnswers
    /\ db \in Catalogs
    /\ \E data \in DataProfiles, stage \in Stages, nhi \in BOOLEAN,
          message_text \in Messages :
          /\ keys # AllPresent =>
                data = EmptyData /\ llm = NoAnswers /\ db = SampleCatalog
          /\ state = InputState(data,
                        IF keys["conversation_stage"] = "present"
                        THEN stage ELSE "None",
                        nhi, message_text)
    /\ caller = state
    /\ path = <<>>
    /\ exc = NoExc
    /\ store = NoState
    /\ reply = NoReply
    /\ turn = 1
    /\ began = Began("process_message", state)
    /\ ServiceIdle
    /\ CallIdle

TurnNext ==
    /\ \/ ProcessMessage
       \/ GraphStep
       \/ ExceptFallback
    /\ UNCHANGED <<service_vars, call_vars>>

TurnSpec == TurnInit /\ [][TurnNext]_vars


-----------------------------------------------------------------------------
(* Persistence: StateManager (src/src/database/session.py) and            *)
(* ConversationService (src/src/services/conversation_service.py) for one *)
(* user and chat.  A request to the remote store either gets through or   *)
(* fails; UpstashRedisClient._request_sync swallows the failure and       *)
(* returns None.                                                          *)

MaxOps == 4

\* StateManager.state_ttl and the limit of _is_conversation_stale, seconds
state_ttl == 86400
StaleAfter == 86400

ConversationIds == 1..(MaxOps + 1)

\* the part of the agent state the persistence layer is observed through
SessionState(id, stage, history, nhi) ==
    [session_id |-> id,
     conversation_stage |-> stage,
     conversation_history |-> history,
     needs_human_intervention |-> nhi]

InitialSessionState(id) == SessionState(id, "greeting", <<>>, FALSE)

HasEntry(table, id) == id \in DOMAIN table

\* the tables with the entry of id set to entry, or removed
WithEntry(table, id, entry) ==
    [k \in (DOMAIN table) \cup {id} |-> IF k = id THEN entry ELSE table[k]]

WithoutEntry(table, id) == [k \in (DOMAIN table) \ {id} |-> table[k]]

\* GET at the remote store: the value while the entry has time to live
RedisGet(id, reachable) ==
    IF reachable /\ HasEntry(redis_data, id) /\ now < redis_data[id].expires
    THEN redis_data[id].value
    ELSE NoState

\* variant that keeps an entry that is already stored
StateManager_save_state_keeping_the_entry(conversation_id, value, reachable) ==
    IF redis_client # "none"
    THEN [saved |-> reachable,
          redis_data |->
              IF reachable /\ ~HasEntry(redis_data, conversation_id)
              THEN WithEntry(redis_data, conversation_id,
                             [value |-> value, expires |-> now + state_ttl])
              ELSE redis_data,
          memory_cache |-> memory_cache]
    ELSE [saved |-> TRUE,
          redis_data |-> redis_data,
          memory_cache |->
              IF HasEntry(memory_cache, conversation_id) THEN memory_cache
              ELSE WithEntry(memory_cache, conversation_id, value)]

\* what save_state returns and leaves in the two stores
StateManager_save_state(conversation_id, value, reachable) ==
    IF redis_client # "none"
    THEN [saved |-> reachable,
          redis_data |->
              IF reachable
              THEN WithEntry(redis_data, conversation_id,
                             [value |-> value, expires |-> now + state_ttl])
              ELSE redis_data,
          memory_cache |-> memory_cache]
    ELSE [saved |-> TRUE,
          redis_data |-> redis_data,
          memory_cache |-> WithEntry(memory_cache, conversation_id, value)]

StateManager_load_state(conversation_id, reachable) ==
    IF redis_client # "none"
    THEN RedisGet(conversation_id, reachable)
    ELSE IF HasEntry(memory_cache, conversation_id)
         THEN memory_cache[conversation_id]
         ELSE NoState

\* variant that empties the stores
StateManager_delete_state_of_every_entry(conversation_id, reachable) ==
    IF redis_client # "none"
    THEN [redis_data |-> IF reachable THEN <<>> ELSE redis_data,
          memory_cache |-> memory_cache]
    ELSE [redis_data |-> redis_data,
          memory_cache |-> <<>>]

\* what delete_state leaves in the two stores
StateManager_delete_state(conversation_id, reachable) ==
    IF redis_client # "none"
    THEN [redis_data |->
              IF reachable THEN WithoutEntry(redis_data, conversation_id)
              ELSE redis_data,
          memory_cache |-> memory_cache]
    ELSE [redis_data |-> redis_data,
          memory_cache |-> WithoutEntry(memory_cache, conversation_id)]

\* the entry physically held for id, whether or not it can be fetched
StoredEntry(id) ==
    IF redis_client # "none"
    THEN IF HasEntry(redis_data, id) THEN redis_data[id].value ELSE NoState
    ELSE IF HasEntry(memory_cache, id) THEN memory_cache[id] ELSE NoState

ConversationRow(id) == [id |-> id, updated_at |-> now, ended |-> FALSE]

\* the newest conversation of the user and chat with ended_at unset, or 0
ActiveConversation ==
    LET active == {i \in 1..Len(conversations) : ~conversations[i].ended}
    IN  IF active = {} THEN 0
        ELSE CHOOSE i \in active : \A j \in active : j <= i

_is_conversation_stale(conversation) ==
    now - conversation.updated_at > StaleAfter

\* the state returned, the table afterwards, and whether a row was created
ConversationService_create_or_get_conversation(reachable) ==
    LET active == ActiveConversation
        new_id == Len(conversations) + 1
        loaded == StateManager_load_state(active, reachable)
    IN  IF active = 0 \/ _is_conversation_stale(conversations[active])
        THEN [state |-> InitialSessionState(new_id),
              conversations |-> Append(conversations, ConversationRow(new_id)),
              created |-> TRUE]
        ELSE [state |-> IF loaded = NoState
                        THEN InitialSessionState(active)
                        ELSE loaded,
              conversations |-> conversations,
              created |-> FALSE]

\* _update_conversation_in_db
Touched(rows, id) ==
    [i \in 1..Len(rows) |->
        IF rows[i].id = id THEN [rows[i] EXCEPT !.updated_at = now]
        ELSE rows[i]]

\* save_conversation_state: the row is updated only when the save reports
\* success
ConversationService_save_conversation_state(rows, s, reachable) ==
    LET r == StateManager_save_state(s.session_id, s, reachable)
    IN  [redis_data |-> r.redis_data,
         memory_cache |-> r.memory_cache,
         conversations |-> IF r.saved THEN Touched(rows, s.session_id)
                           ELSE rows]

\* variant that deletes the stored state but leaves ended_at unset
ConversationService_end_conversation_leaving_it_active(rows, conversation_id, reachable) ==
    LET r == StateManager_delete_state(conversation_id, reachable)
    IN  [redis_data |-> r.redis_data,
         memory_cache |-> r.memory_cache,
         conversations |-> rows]

\* end_conversation: ended_at is set, then the stored state is deleted
ConversationService_end_conversation(rows, conversation_id, reachable) ==
    LET r == StateManager_delete_state(conversation_id, reachable)
    IN  [redis_data |-> r.redis_data,
         memory_cache |-> r.memory_cache,
         conversations |->
             [i \in 1..Len(rows) |->
                 IF rows[i].id = conversation_id
                 THEN [rows[i] EXCEPT !.ended = TRUE, !.updated_at = now]
                 ELSE rows[i]]]

\* the state a turn of the bot hands back for saving: the user's message is
\* in the history and the turn has ended escalated
AfterTurn(s) ==
    [s EXCEPT !.conversation_history =
                  Append(@, ConversationMessage("user", <<"hola">>)),
              !.conversation_stage = "escalated",
              !.needs_human_intervention = TRUE]

\* what create_or_get_conversation found and returned, for the call record
Lookup(handler, get_ok, found) ==
    LET active == ActiveConversation
    IN  [op |-> handler,
         get_ok |-> get_ok,
         active |-> active,
         elapsed |-> IF active = 0 THEN -1
                     ELSE now - conversations[active].updated_at,
         stored |-> StoredEntry(active),
         returned |-> found.state,
         created |-> found.created]

\* the agent when it plays no part
AgentIdle ==
    /\ pc = "idle"
    /\ state = _create_initial_state
    /\ caller = _create_initial_state
    /\ keys = AllPresent
    /\ path = <<>>
    /\ exc = NoExc
    /\ llm = NoAnswers
    /\ db = SampleCatalog
    /\ store = NoState
    /\ reply = NoReply
    /\ turn = 0
    /\ began = Began("none", _create_initial_state)

\* /start: the conversation is created or resumed, nothing is saved
StartCommand ==
    /\ ops < MaxOps
    /\ \E get_ok \in BOOLEAN :
          LET found == ConversationService_create_or_get_conversation(get_ok)
          IN  /\ conversations' = found.conversations
              /\ call' = Lookup("start_command", get_ok, found)
              /\ result' = found.state
    /\ ops' = ops + 1
    /\ UNCHANGED <<redis_client, redis_data, memory_cache, now, rate_limit,
                   agent_vars>>

\* a text message: create or resume, run the turn, save the state
MessageTurn ==
    /\ ops < MaxOps
    /\ \E get_ok \in BOOLEAN, set_ok \in BOOLEAN :
          LET found == ConversationService_create_or_get_conversation(get_ok)
              updated_state == AfterTurn(found.state)
              after == ConversationService_save_conversation_state(
                           found.conversations, updated_state, set_ok)
          IN  /\ conversations' = after.conversations
              /\ redis_data' = after.redis_data
              /\ memory_cache' = after.memory_cache
              /\ call' = Lookup("handle_message", get_ok, found)
                            @@ [set_ok |-> set_ok]
              /\ result' = updated_state
    /\ ops' = ops + 1
    /\ UNCHANGED <<redis_client, now, rate_limit, agent_vars>>

\* /reset: create or resume, then end that conversation
ResetCommand ==
    /\ ops < MaxOps
    /\ \E get_ok \in BOOLEAN, del_ok \in BOOLEAN :
          LET found == ConversationService_create_or_get_conversation(get_ok)
              after == ConversationService_end_conversation(
                           found.conversations, found.state.session_id, del_ok)
          IN  /\ conversations' = after.conversations
              /\ redis_data' = after.redis_data
              /\ memory_cache' = after.memory_cache
              /\ call' = Lookup("reset_command", get_ok, found)
                            @@ [del_ok |-> del_ok]
              /\ result' = found.state
    /\ ops' = ops + 1
    /\ UNCHANGED <<redis_client, now, rate_limit, agent_vars>>

\* time passes between two operations: just under, exactly, or just over
\* the staleness limit
Elapse ==
    /\ ops < MaxOps
    /\ \E seconds \in {StaleAfter - 1, StaleAfter, StaleAfter + 1} :
          now' = now + seconds
    /\ ops' = ops + 1
    /\ call' = [op |-> "elapse"]
    /\ result' = NoState
    /\ UNCHANGED <<redis_client, redis_data, memory_cache, conversations,
                   rate_limit, agent_vars>>

StoreInit ==
    /\ AgentIdle
    /\ redis_client \in {"upstash", "none"}
    /\ redis_data = <<>>
    /\ memory_cache = <<>>
    /\ conversations = <<>>
    /\ now = 0
    /\ ops = 0
    /\ rate_limit = NoCounters
    /\ CallIdle

StoreNext ==
    \/ StartCommand
    \/ MessageTurn
    \/ ResetCommand
    \/ Elapse

StoreSpec == StoreInit /\ [][StoreNext]_vars

-----------------------------------------------------------------------------
(* Serialization (ConversationService._serialize_state and                *)
(* _deserialize_state, and the JSON encoding of StateManager.save_state    *)
(* and load_state).  Values carry their Python type: a datetime, a string  *)
(* that holds a time, a dict, a list, an instance of a dataclass.          *)

Datetime(t) == [kind |-> "datetime", at |-> t]
\* datetime.isoformat() and str(datetime): strings holding the time
IsoString(t) == [kind |-> "str", text |-> "isoformat", at |-> t]
PlainString(t) == [kind |-> "str", text |-> "str", at |-> t]
NoneValue == [kind |-> "NoneType"]
Text(w) == [kind |-> "str", text |-> w, at |-> 0]
Dict(fields) == [kind |-> "dict", fields |-> fields]
List(items) == [kind |-> "list", items |-> items]
Instance(class, fields) == [kind |-> class, fields |-> fields]

\* hasattr(value, '__dict__'): instances of the dataclasses
HasDict(v) ==
    v.kind \notin {"datetime", "str", "NoneType", "dict", "list"}

SerializeItem(v) == IF HasDict(v) THEN Dict(v.fields) ELSE v

SerializeValue(v) ==
    IF HasDict(v) THEN Dict(v.fields)
    ELSE IF v.kind = "datetime" THEN IsoString(v.at)
    ELSE IF v.kind = "list"
         THEN List([i \in 1..Len(v.items) |-> SerializeItem(v.items[i])])
    ELSE v

_serialize_state(s) == [key \in DOMAIN s |-> SerializeValue(s[key])]

\* json.dumps(state, default=str) followed by json.loads: a datetime that
\* is still inside a dict or a list comes back as the string str() made
JsonLeaf(v) == IF v.kind = "datetime" THEN PlainString(v.at) ELSE v

JsonDict(d) == Dict([f \in DOMAIN d.fields |-> JsonLeaf(d.fields[f])])

JsonValue(v) ==
    IF v.kind = "dict" THEN JsonDict(v)
    ELSE IF v.kind = "list"
         THEN List([i \in 1..Len(v.items) |->
                       IF v.items[i].kind = "dict" THEN JsonDict(v.items[i])
                       ELSE JsonLeaf(v.items[i])])
    ELSE JsonLeaf(v)

JsonRoundTrip(data) == [key \in DOMAIN data |-> JsonValue(data[key])]

\* the constructors _deserialize_state applies, by key
DataclassOf(key) ==
    CASE key = "client_info" -> "ClientInfo"
      [] key = "project_details" -> "ProjectDetails"
      [] key = "site_conditions" -> "SiteConditions"

DeserializeValue(key, v) ==
    IF key \in {"created_at", "updated_at"} /\ v.kind = "str"
    THEN Datetime(v.at)
    ELSE IF key \in {"client_info", "project_details", "site_conditions"}
            /\ v.kind = "dict"
    THEN Instance(DataclassOf(key), v.fields)
    ELSE IF key = "equipment_needs" /\ v.kind = "list"
    THEN List([i \in 1..Len(v.items) |->
                  Instance("EquipmentNeed", v.items[i].fields)])
    ELSE IF key = "conversation_history" /\ v.kind = "list"
    THEN List([i \in 1..Len(v.items) |-> Dict(v.items[i].fields)])
    ELSE v

_deserialize_state(state_data) ==
    [key \in DOMAIN state_data |-> DeserializeValue(key, state_data[key])]

MaxTime == 2

\* states as handle_message and the nodes build them: timestamps are
\* datetimes, the nested records are dataclass instances, history entries
\* are dicts, pricing_info is the empty dict or a PricingInfo
CodecStates ==
    {[created_at |-> Datetime(t),
      updated_at |-> Datetime(t),
      conversation_stage |-> Text("greeting"),
      client_info |-> Instance("ClientInfo", [phone |-> NoneValue]),
      project_details |-> Instance("ProjectDetails", [start_date |-> start]),
      site_conditions |->
          Instance("SiteConditions", [surface_type |-> NoneValue]),
      equipment_needs |-> needs,
      pricing_info |-> pricing,
      conversation_history |-> history] :
        t \in 1..MaxTime,
        start \in {NoneValue, Datetime(1)},
        needs \in {List(<<>>),
                   List(<<Instance("EquipmentNeed",
                                   [height_needed |-> NoneValue])>>)},
        pricing \in {Dict(<<>>),
                     Instance("PricingInfo", [valid_until |-> Datetime(1)])},
        history \in {List(<<>>),
                     List(<<Dict([role |-> Text("user"),
                                  timestamp |-> Datetime(1)])>>)}}

CodecInit ==
    /\ AgentIdle
    /\ ServiceIdle
    /\ \E s \in CodecStates, via_json \in BOOLEAN :
          /\ call = [op |-> "save_conversation_state",
                     via_json |-> via_json, state |-> s]
          /\ result = s

Serialize ==
    /\ call.op = "save_conversation_state"
    /\ call' = [call EXCEPT !.op = "_serialize_state"]
    /\ result' = _serialize_state(result)
    /\ UNCHANGED <<agent_vars, service_vars>>

\* the remote store keeps the JSON text; the in-process map keeps the dict
SaveAndLoad ==
    /\ call.op = "_serialize_state"
    /\ call' = [call EXCEPT !.op = "load_state"]
    /\ result' = IF call.via_json THEN JsonRoundTrip(result) ELSE result
    /\ UNCHANGED <<agent_vars, service_vars>>

Deserialize ==
    /\ call.op = "load_state"
    /\ call' = [call EXCEPT !.op = "_deserialize_state"]
    /\ result' = _deserialize_state(result)
    /\ UNCHANGED <<agent_vars, service_vars>>

CodecNext ==
    \/ Serialize
    \/ SaveAndLoad
    \/ Deserialize

CodecSpec == CodecInit /\ [][CodecNext]_vars

-----------------------------------------------------------------------------
(* The extraction engine called on its own: a state, a message and the    *)
(* answers of the LLM extractor for that message                          *)

\* the messages of the bot, and one with a number of months before the
\* height
ExtractMessages ==
    Messages \cup {<<"por", "3", "meses", "a", "5", "metros">>}

ExtractInit ==
    /\ AgentIdle
    /\ ServiceIdle
    /\ \E s \in DataProfiles, message \in ExtractMessages,
          answers \in LLMAnswers :
          /\ call = [op |-> "_extract_all_possible_info", done |-> FALSE,
                     state |-> s, message |-> message, answers |-> answers]
          /\ result = s

Extract ==
    /\ call.op = "_extract_all_possible_info"
    /\ ~call.done
    /\ call' = [call EXCEPT !.done = TRUE]
    /\ result' = _extract_all_possible_info(call.state, call.message,
                                            call.answers)
    /\ UNCHANGED <<agent_vars, service_vars>>

\* the engine called once more, on the state the first call left, with the
\* same message and the same answers
ExtractAgain ==
    /\ call.op = "_extract_all_possible_info"
    /\ call.done
    /\ call' = [op |-> "_extract_all_possible_info again", done |-> TRUE,
                state |-> call.state, message |-> call.message,
                answers |-> call.answers, once |-> result]
    /\ result' = _extract_all_possible_info(result, call.message,
                                            call.answers)
    /\ UNCHANGED <<agent_vars, service_vars>>

ExtractNext ==
    \/ Extract
    \/ ExtractAgain

ExtractSpec == ExtractInit /\ [][ExtractNext]_vars

-----------------------------------------------------------------------------
(* The pricing engine: pricing_service.py                                 *)
(* Amounts are exact decimals counted in units of 10^-5 of the currency  *)
(* unit, so that 5%, 19% and the 1.2 surcharge of an amount in cents are *)
(* whole numbers; round(x, 2) rounds to the nearest cent, ties to even.  *)

Unit == 100000
Cent == 1000

round2(x) ==
    LET q == x \div Cent
        r == x % Cent
    IN  IF r * 2 > Cent \/ (r * 2 = Cent /\ q % 2 = 1)
        THEN (q + 1) * Cent
        ELSE q * Cent

\* a key that the dict of an item does not hold
Missing == -2

\* settings.base_delivery_cost, settings.weekend_surcharge (in tenths) and
\* settings.default_currency
base_delivery_cost == 50 * Unit
weekend_surcharge == 12
default_currency == "USD"

\* sum(item.get("subtotal", 0) for item in selected_equipment)
RECURSIVE equipment_subtotal_of(_)
equipment_subtotal_of(selected_equipment) ==
    IF selected_equipment = <<>> THEN 0
    ELSE (IF Head(selected_equipment).subtotal = Missing THEN 0
          ELSE Head(selected_equipment).subtotal)
         + equipment_subtotal_of(Tail(selected_equipment))

\* city in location_lower, for locations written as sequences of words
InLocation(location, cities) ==
    \E i \in 1..Len(location) : location[i] \in cities

_calculate_delivery_cost(location) ==
    IF location = None THEN base_delivery_cost
    ELSE IF InLocation(location, {"centro", "downtown"})
         THEN base_delivery_cost + 0
    ELSE IF InLocation(location, {"norte", "sur", "chapinero"})
         THEN base_delivery_cost + 25 * Unit
    ELSE base_delivery_cost + 50 * Unit

\* setup_rates.get(equipment_type, 75)
setup_rates(equipment_type) ==
    CASE equipment_type = "andamio" -> 100 * Unit
      [] equipment_type = "plataforma_elevadora" -> 150 * Unit
      [] equipment_type = "escalera" -> 50 * Unit
      [] equipment_type = "grua" -> 300 * Unit
      [] equipment_type = "montacargas" -> 200 * Unit
      [] OTHER -> 75 * Unit

RECURSIVE _calculate_setup_cost(_)
_calculate_setup_cost(selected_equipment) ==
    IF selected_equipment = <<>> THEN 0
    ELSE setup_rates(Head(selected_equipment).equipment_type)
            * (IF Head(selected_equipment).quantity = Missing THEN 1
               ELSE Head(selected_equipment).quantity)
         + _calculate_setup_cost(Tail(selected_equipment))

_calculate_insurance_cost(equipment_subtotal) == (equipment_subtotal * 5) \div 100

_calculate_taxes(subtotal) == (subtotal * 19) \div 100

\* a start date is the number of its day, day 0 being a Monday
weekday(start_date) == start_date % 7

\* the multiplier in tenths
_get_date_surcharge_multiplier_sundays_only(start_date) ==
    IF start_date = NoneNum THEN 10
    ELSE IF weekday(start_date) > 5 THEN weekend_surcharge
    ELSE 10

_get_date_surcharge_multiplier(start_date) ==
    IF start_date = NoneNum THEN 10
    ELSE IF weekday(start_date) >= 5 THEN weekend_surcharge
    ELSE 10

ValidFor == 7 * 86400

\* the PricingInfo built at time t
calculate_quote(selected_equipment, project_details, t) ==
    LET equipment_subtotal == equipment_subtotal_of(selected_equipment)
        delivery_cost == _calculate_delivery_cost(project_details.location)
        setup_cost == _calculate_setup_cost(selected_equipment)
        insurance_cost == _calculate_insurance_cost(equipment_subtotal)
        tax_amount ==
            _calculate_taxes(equipment_subtotal + delivery_cost + setup_cost)
        total_before_surcharge ==
            equipment_subtotal + delivery_cost + setup_cost + insurance_cost
            + tax_amount
        surcharge_multiplier ==
            _get_date_surcharge_multiplier(project_details.start_date)
        total_amount == (total_before_surcharge * surcharge_multiplier) \div 10
    IN  [equipment_subtotal |-> round2(equipment_subtotal),
         delivery_cost |-> round2(delivery_cost),
         setup_cost |-> round2(setup_cost),
         insurance_cost |-> round2(insurance_cost),
         tax_amount |-> round2(tax_amount),
         total_amount |-> round2(total_amount),
         currency |-> default_currency,
         valid_until |-> t + ValidFor]

\* the node run by the graph on a state holding these selected_equipment
\* and project_details: it assigns the quote to its own state dict, then
\* _format_quote_response subscripts the PricingInfo object and raises
\* TypeError, so the node returns no state and the graph keeps the
\* pricing_info it had
quote_calculator(pricing_info, selected_equipment, project_details, t) ==
    [assigned |-> calculate_quote(selected_equipment, project_details, t),
     raised |-> "TypeError",
     pricing_info |-> pricing_info]

MaxItems == 2

\* items of selected_equipment; an item may lack quantity or subtotal
EquipmentItems ==
    {[equipment_type |-> "andamio", quantity |-> Missing,
      subtotal |-> 4510 * Cent],
     [equipment_type |-> "andamio", quantity |-> 2,
      subtotal |-> 1234 * Cent],
     [equipment_type |-> "grua", quantity |-> 1, subtotal |-> Missing],
     [equipment_type |-> "generador", quantity |-> 2,
      subtotal |-> 1234 * Cent]}

RECURSIVE ItemLists(_)
ItemLists(n) ==
    IF n = 0 THEN {<<>>}
    ELSE ItemLists(n - 1)
         \cup {Append(l, i) : l \in {k \in ItemLists(n - 1) : Len(k) = n - 1},
                              i \in EquipmentItems}

Locations == {None, <<"bogotá", "centro">>, <<"zona", "norte">>, <<"medellín">>}

\* unset, a Friday, a Saturday, a Sunday and the Monday after it
StartDates == {NoneNum, 4, 5, 6, 7}

MaxCalls == 2

PricingInit ==
    /\ AgentIdle
    /\ ServiceIdle
    /\ result = NoState
    /\ \E selected_equipment \in ItemLists(MaxItems), location \in Locations,
          start_date \in StartDates :
          LET project_details ==
                  [location |-> location, start_date |-> start_date]
          IN  call = [op |-> "pricing",
                      given |-> [selected_equipment |-> selected_equipment,
                                 project_details |-> project_details],
                      selected_equipment |-> selected_equipment,
                      project_details |-> project_details,
                      pricing_info |-> <<>>,
                      quotes |-> <<>>,
                      runs |-> <<>>]

\* the clock reading of a call: the same second as the call before or a
\* later one
Tick == now' \in {now, now + 1}

CalculateQuote ==
    /\ call.op = "pricing"
    /\ Len(call.quotes) < MaxCalls
    /\ Tick
    /\ result' = calculate_quote(call.selected_equipment,
                                 call.project_details, now')
    /\ call' = [call EXCEPT !.quotes = Append(@, result')]
    /\ UNCHANGED <<agent_vars, redis_client, redis_data, memory_cache,
                   conversations, ops, rate_limit>>

RunQuoteCalculator ==
    /\ call.op = "pricing"
    /\ Len(call.runs) < MaxCalls
    /\ Tick
    /\ result' = quote_calculator(call.pricing_info, call.selected_equipment,
                                  call.project_details, now')
    /\ call' = [call EXCEPT !.runs = Append(@, result'),
                            !.pricing_info = result'.pricing_info]
    /\ UNCHANGED <<agent_vars, redis_client, redis_data, memory_cache,
                   conversations, ops, rate_limit>>

PricingNext ==
    \/ CalculateQuote
    \/ RunQuoteCalculator

PricingSpec == PricingInit /\ [][PricingNext]_vars

-----------------------------------------------------------------------------
(* The recommender called on its own: needs, site conditions, project     *)
(* details and the rows of the equipment table                            *)

\* a table with rows that are unavailable or out of stock, and with more
\* than three rows of one type
MixedCatalog ==
    <<Row("escalera_6", <<"escalera">>, 6, 136, 15, 90, 350, 10, TRUE),
      Row("andamio_6", <<"andamio">>, 6, 250, 40, 240, 900, 0, TRUE),
      Row("andamio_10", <<"andamio">>, 10, 300, 45, 270, 1000, 5, TRUE),
      Row("andamio_12", <<"andamio">>, 12, 300, 60, 360, 1300, 5, FALSE),
      Row("torre_8", <<"andamio">>, 8, 200, 55, 330, 1200, 4, TRUE),
      Row("torre_12", <<"andamio">>, 12, 300, 65, 390, 1400, 2, TRUE),
      Row("torre_9", <<"andamio">>, 9, 280, 75, 450, 1600, 6, TRUE)>>

RecommenderCatalogs == {<<>>, SampleCatalog, MixedCatalog}

RecommenderNeeds ==
    [equipment_type : {None, <<"andamio">>, <<"grua">>},
     height_needed : {NoneNum, 0, 7, 11},
     capacity_needed : {NoneNum, 250},
     quantity : {NoneNum, 5}]

RecommendInit ==
    /\ AgentIdle
    /\ ServiceIdle
    /\ result = NoState
    /\ \E equipment_needs \in {<<>>} \cup {<<n>> : n \in RecommenderNeeds},
          surface_type \in {None, <<"concreto">>, <<"cesped">>},
          duration_days \in {NoneNum, 10},
          rows \in RecommenderCatalogs :
          call = [op |-> "get_recommendations", done |-> FALSE,
                  equipment_needs |-> equipment_needs,
                  site_conditions |-> [surface_type |-> surface_type],
                  project_details |-> [project_type |-> None,
                                       location |-> None,
                                       duration_days |-> duration_days],
                  rows |-> rows]

Recommend ==
    /\ call.op = "get_recommendations"
    /\ ~call.done
    /\ call' = [call EXCEPT !.done = TRUE]
    /\ result' = get_recommendations(call.equipment_needs,
                                     call.site_conditions,
                                     call.project_details, call.rows)
    /\ UNCHANGED <<agent_vars, service_vars>>

RecommendNext == Recommend

RecommendSpec == RecommendInit /\ [][RecommendNext]_vars

-----------------------------------------------------------------------------
(* Request validation: src/src/utils/validators.py.  A validator gives    *)
(* the message of the ValidationError it raises, or Valid when it returns *)
(* True.  Requests hold a subset of the keys height, capacity,            *)
(* duration_days and email; the branches of the other keys do not run.    *)

Valid == "valid"
NoKey == "no_key"

validate_height(height) ==
    IF height < 2 THEN "La altura mínima es 2 metros"
    ELSE IF height > 50 THEN "La altura máxima es 50 metros"
    ELSE Valid

validate_capacity(capacity) ==
    IF capacity < 100 THEN "La capacidad mínima es 100 kg"
    ELSE IF capacity > 2000 THEN "La capacidad máxima es 2000 kg"
    ELSE Valid

validate_duration(duration_days) ==
    IF duration_days < 1 THEN "La duración mínima es 1 días"
    ELSE IF duration_days > 365 THEN "La duración máxima es 365 días"
    ELSE Valid

\* the sample addresses that match email_pattern
WellFormedEmails == {"ana@obra.co"}

validate_email(email) ==
    IF email = "" THEN Valid
    ELSE IF email \notin WellFormedEmails
    THEN "El formato del email no es válido"
    ELSE Valid

\* the checks of the try block in their order, each with the key it needs
RequestChecks(request_data) ==
    <<[present |-> request_data.height # Missing,
       outcome |-> validate_height(request_data.height)],
      [present |-> request_data.capacity # Missing,
       outcome |-> validate_capacity(request_data.capacity)],
      [present |-> request_data.duration_days # Missing,
       outcome |-> validate_duration(request_data.duration_days)],
      [present |-> request_data.email # NoKey,
       outcome |-> validate_email(request_data.email)]>>

\* the first ValidationError leaves the try block: its message is the only
\* error appended
validate_complete_request(request_data) ==
    LET checks == RequestChecks(request_data)
        Raising == {i \in 1..Len(checks) :
                       checks[i].present /\ checks[i].outcome # Valid}
    IN  IF Raising = {} THEN <<>>
        ELSE <<checks[CHOOSE i \in Raising : \A j \in Raising : i <= j].outcome>>

Requests ==
    [height : {Missing, 1, 10, 60},
     capacity : {Missing, 50, 500},
     duration_days : {Missing, 0, 30, 400},
     email : {NoKey, "ana@obra.co", "ana-at-obra"}]

ValidateInit ==
    /\ AgentIdle
    /\ ServiceIdle
    /\ result = NoState
    /\ \E request_data \in Requests :
          call = [op |-> "validate_complete_request", done |-> FALSE,
                  request_data |-> request_data]

Validate ==
    /\ call.op = "validate_complete_request"
    /\ ~call.done
    /\ call' = [call EXCEPT !.done = TRUE]
    /\ result' = validate_complete_request(call.request_data)
    /\ UNCHANGED <<agent_vars, service_vars>>

ValidateNext == Validate

ValidateSpec == ValidateInit /\ [][ValidateNext]_vars

-----------------------------------------------------------------------------
(* Rate limiting (RateLimiter, src/src/database/session.py) in front of   *)
(* the handlers, for one user, with no remote store configured: the       *)
(* limiter and the state manager both keep their data in process.         *)

max_messages_per_minute == 10
max_messages_per_hour == 100

\* the resets both methods apply before they read or count
WindowsAt(counters, current_time) ==
    LET minute_reset ==
            IF current_time - counters.last_minute >= 60
            THEN [counters EXCEPT !.minute = 0, !.last_minute = current_time]
            ELSE counters
    IN  IF current_time - minute_reset.last_hour >= 3600
        THEN [minute_reset EXCEPT !.hour = 0, !.last_hour = current_time]
        ELSE minute_reset

\* the verdict, and the cached counters afterwards: the resets are written
\* to the cached dict, not to the default dict of an unknown user
is_rate_limited(counters, current_time) ==
    LET user_data == WindowsAt(counters, current_time)
    IN  [limited |-> \/ user_data.minute >= max_messages_per_minute
                     \/ user_data.hour >= max_messages_per_hour,
         counters |-> IF counters.present THEN user_data ELSE counters]

increment_rate_limit(counters, current_time) ==
    LET entry == IF counters.present THEN counters
                 ELSE [present |-> TRUE, minute |-> 0, hour |-> 0,
                       last_minute |-> current_time,
                       last_hour |-> current_time]
        user_data == WindowsAt(entry, current_time)
    IN  [user_data EXCEPT !.minute = @ + 1, !.hour = @ + 1]

\* the turn /cotizar runs: the handler appends no user message
AfterQuoteTurn(s) ==
    [s EXCEPT !.conversation_stage = "escalated",
              !.needs_human_intervention = TRUE]

MaxGateOps == 12

\* what a handler did, for the call record
Handled(handler, checked, limited, counted, invoked) ==
    [op |-> handler, checked |-> checked, limited |-> limited,
     counted |-> counted, invoked |-> invoked,
     stored_before |-> memory_cache]

\* handle_message: the check, the count, then the turn and the save
LimitedMessage ==
    /\ ops < MaxGateOps
    /\ ops' = ops + 1
    /\ LET verdict == is_rate_limited(rate_limit, now)
       IN  IF verdict.limited
           THEN /\ rate_limit' = verdict.counters
                /\ call' = Handled("handle_message", TRUE, TRUE, FALSE, FALSE)
                /\ result' = NoState
                /\ UNCHANGED <<conversations, redis_data, memory_cache>>
           ELSE LET found ==
                        ConversationService_create_or_get_conversation(TRUE)
                    updated_state == AfterTurn(found.state)
                    after == ConversationService_save_conversation_state(
                                 found.conversations, updated_state, TRUE)
                IN  /\ rate_limit' =
                           increment_rate_limit(verdict.counters, now)
                    /\ conversations' = after.conversations
                    /\ redis_data' = after.redis_data
                    /\ memory_cache' = after.memory_cache
                    /\ call' = Handled("handle_message", TRUE, FALSE, TRUE,
                                       TRUE)
                    /\ result' = updated_state
    /\ UNCHANGED <<redis_client, now, agent_vars>>

\* quote_command: create or resume, run the graph, save; the limiter is
\* not consulted
QuoteTurn ==
    /\ ops < MaxGateOps
    /\ ops' = ops + 1
    /\ LET found == ConversationService_create_or_get_conversation(TRUE)
           updated_state == AfterQuoteTurn(found.state)
           after == ConversationService_save_conversation_state(
                        found.conversations, updated_state, TRUE)
       IN  /\ conversations' = after.conversations
           /\ redis_data' = after.redis_data
           /\ memory_cache' = after.memory_cache
           /\ call' = Handled("quote_command", FALSE, FALSE, FALSE, TRUE)
           /\ result' = updated_state
    /\ UNCHANGED <<redis_client, now, rate_limit, agent_vars>>

\* a second or a minute passes
Wait ==
    /\ ops < MaxGateOps
    /\ ops' = ops + 1
    /\ \E seconds \in {1, 60} : now' = now + seconds
    /\ call' = [op |-> "wait"]
    /\ result' = NoState
    /\ UNCHANGED <<redis_client, redis_data, memory_cache, conversations,
                   rate_limit, agent_vars>>

GateInit ==
    /\ AgentIdle
    /\ ServiceIdle
    /\ CallIdle

GateNext ==
    \/ LimitedMessage
    \/ QuoteTurn
    \/ Wait

GateSpec == GateInit /\ [][GateNext]_vars

-----------------------------------------------------------------------------
(* Interleaved updates.  The webhook endpoint awaits process_update for   *)
(* each request, so handlers of different requests interleave at their    *)
(* awaits: handle_message runs create_or_get_conversation and the append  *)
(* of the user's message without a pause, then awaits the graph, then     *)
(* awaits the reply and saves; reset_command loads and ends the           *)
(* conversation without a pause.  Rows of the conversations table carry   *)
(* the user they belong to.                                               *)

\* the updates in flight: the user, the handler and the text of each
Slots == 1..4
SlotUser == <<"a", "a", "b", "a">>
SlotHandler ==
    <<"handle_message", "handle_message", "handle_message", "reset_command">>
SlotText == <<<<"uno">>, <<"dos">>, <<"tres">>, <<"/reset">>>>

UserRow(id, telegram_user_id) ==
    ConversationRow(id) @@ [user |-> telegram_user_id]

\* the newest conversation of the user with ended_at unset, or 0
ActiveConversationOf(telegram_user_id) ==
    LET active == {i \in 1..Len(conversations) :
                      /\ conversations[i].user = telegram_user_id
                      /\ ~conversations[i].ended}
    IN  IF active = {} THEN 0
        ELSE CHOOSE i \in active : \A j \in active : j <= i

create_or_get_conversation_of(telegram_user_id, reachable) ==
    LET active == ActiveConversationOf(telegram_user_id)
        new_id == Len(conversations) + 1
        loaded == StateManager_load_state(active, reachable)
    IN  IF active = 0 \/ _is_conversation_stale(conversations[active])
        THEN [state |-> InitialSessionState(new_id),
              conversations |->
                  Append(conversations, UserRow(new_id, telegram_user_id))]
        ELSE [state |-> IF loaded = NoState
                        THEN InitialSessionState(active)
                        ELSE loaded,
              conversations |-> conversations]

\* the graph run of a turn: the reply is appended and the turn ends
\* escalated
GraphRan(s, text) ==
    [s EXCEPT !.conversation_history =
                  Append(@, ConversationMessage("assistant",
                                                <<"respuesta">> \o text)),
              !.conversation_stage = "escalated",
              !.needs_human_intervention = TRUE]

IdleSlot == [pc |-> "idle", state |-> NoState, saved |-> FALSE, order |-> 0,
             others |-> {}]

\* the slots that hold a loaded state they have not saved yet
InFlight == {t \in Slots : call.turns[t].pc \in {"loaded", "ran"}}

InterleaveInit ==
    /\ AgentIdle
    /\ redis_client \in {"upstash", "none"}
    /\ redis_data = <<>>
    /\ memory_cache = <<>>
    /\ conversations = <<>>
    /\ now = 0
    /\ ops = 0
    /\ rate_limit = NoCounters
    /\ call = [op |-> "interleave", last |-> 0,
               turns |-> [t \in Slots |-> IdleSlot]]
    /\ result = NoState

\* handle_message up to its first await
LoadStep(t) ==
    /\ SlotHandler[t] = "handle_message"
    /\ call.turns[t].pc = "idle"
    /\ \E get_ok \in BOOLEAN :
          LET found == create_or_get_conversation_of(SlotUser[t], get_ok)
              state_ == [found.state EXCEPT !.conversation_history =
                            Append(@, ConversationMessage("user",
                                                          SlotText[t]))]
          IN  /\ conversations' = found.conversations
              /\ call' = [call EXCEPT !.last = t,
                                      !.turns[t].pc = "loaded",
                                      !.turns[t].state = state_]
              /\ result' = state_
    /\ UNCHANGED <<redis_client, redis_data, memory_cache, now, ops,
                   rate_limit, agent_vars>>

\* the awaited graph run
RunStep(t) ==
    /\ call.turns[t].pc = "loaded"
    /\ LET updated_state == GraphRan(call.turns[t].state, SlotText[t])
       IN  /\ call' = [call EXCEPT !.last = t,
                                   !.turns[t].pc = "ran",
                                   !.turns[t].state = updated_state]
           /\ result' = updated_state
    /\ UNCHANGED <<service_vars, agent_vars>>

\* after the awaited reply: save_conversation_state
SaveStep(t) ==
    /\ call.turns[t].pc = "ran"
    /\ \E set_ok \in BOOLEAN :
          LET after == ConversationService_save_conversation_state(
                           conversations, call.turns[t].state, set_ok)
          IN  /\ conversations' = after.conversations
              /\ redis_data' = after.redis_data
              /\ memory_cache' = after.memory_cache
              /\ call' = [call EXCEPT
                             !.last = t,
                             !.turns[t].pc = "saved",
                             !.turns[t].saved = (redis_client = "none" \/ set_ok),
                             !.turns[t].order = ops + 1,
                             !.turns[t].others = InFlight \ {t}]
              /\ result' = call.turns[t].state
    /\ ops' = ops + 1
    /\ UNCHANGED <<redis_client, now, rate_limit, agent_vars>>

\* reset_command up to its await
ResetStep(t) ==
    /\ SlotHandler[t] = "reset_command"
    /\ call.turns[t].pc = "idle"
    /\ \E get_ok \in BOOLEAN, del_ok \in BOOLEAN :
          LET found == create_or_get_conversation_of(SlotUser[t], get_ok)
              after == ConversationService_end_conversation(
                           found.conversations, found.state.session_id, del_ok)
          IN  /\ conversations' = after.conversations
              /\ redis_data' = after.redis_data
              /\ memory_cache' = after.memory_cache
              /\ call' = [call EXCEPT !.last = t,
                                      !.turns[t].pc = "saved",
                                      !.turns[t].state = found.state,
                                      !.turns[t].order = ops + 1]
              /\ result' = found.state
    /\ ops' = ops + 1
    /\ UNCHANGED <<redis_client, now, rate_limit, agent_vars>>

InterleaveNext ==
    \E t \in Slots :
       \/ LoadStep(t)
       \/ RunStep(t)
       \/ SaveStep(t)
       \/ ResetStep(t)

InterleaveSpec == InterleaveInit /\ [][InterleaveNext]_vars

-----------------------------------------------------------------------------
(* message_router called on its own, on messages that also mix words of   *)
(* two keyword families                                                    *)

RouterMessages ==
    Messages \cup {<<"precio", "del", "andamio">>,
                   <<"altura", "y", "contacto">>,
                   <<"email", "para", "cotizar">>}

RouterInit ==
    /\ AgentIdle
    /\ ServiceIdle
    /\ result = NoState
    /\ \E data \in DataProfiles, stage \in Stages, nhi \in BOOLEAN,
          message_text \in RouterMessages :
          call = [op |-> "message_router", done |-> FALSE,
                  state |-> InputState(data, stage, nhi, message_text)]

RouteMessage ==
    /\ call.op = "message_router"
    /\ ~call.done
    /\ call' = [call EXCEPT !.done = TRUE]
    /\ result' = message_router(call.state)
    /\ UNCHANGED <<agent_vars, service_vars>>

RouterNext == RouteMessage

RouterSpec == RouterInit /\ [][RouterNext]_vars

-----------------------------------------------------------------------------
(* _identify_missing_information called on its own *)

\* durations a state may hold: unset, zero days, ten days
Durations == {NoneNum, 0, 10}

\* the data profiles, and one with the surface known before any need
MissingProfiles ==
    DataProfiles \cup
        {[EmptyData EXCEPT !.site_conditions =
                               [surface_type |-> <<"concreto">>]]}

IdentifyInit ==
    /\ AgentIdle
    /\ ServiceIdle
    /\ \E data \in MissingProfiles, stage \in Stages, days \in Durations :
          /\ call = [op |-> "_identify_missing_information", done |-> FALSE,
                     state |-> [data EXCEPT
                                   !.conversation_stage = stage,
                                   !.project_details.duration_days = days]]
          /\ result = <<>>

Identify ==
    /\ call.op = "_identify_missing_information"
    /\ ~call.done
    /\ call' = [call EXCEPT !.done = TRUE]
    /\ result' = _identify_missing_information(call.state)
    /\ UNCHANGED <<agent_vars, service_vars>>

IdentifyNext == Identify

IdentifySpec == IdentifyInit /\ [][IdentifyNext]_vars

-----------------------------------------------------------------------------
(* Recommendation and quote for two lists of needs with the same first   *)
(* need: what equipment_advisor and quote_calculator compute from a state *)

\* a recommendation as calculate_quote reads it: the type as a key of
\* setup_rates, the subtotal (a daily-rate one, a whole amount) in the
\* unit of the pricing engine
AsQuoteItem(recommendation) ==
    [equipment_type |-> recommendation.equipment_type[1],
     quantity |-> recommendation.quantity,
     subtotal |-> (recommendation.subtotal \div 210) * Unit]

\* get_recommendations on the needs, then calculate_quote on its list
RecommendAndQuote(equipment_needs, site_conditions, project_details, rows) ==
    LET recommendations ==
            get_recommendations(equipment_needs, site_conditions,
                                project_details, rows)
    IN  [recommendations |-> recommendations,
         quote |-> calculate_quote(
                       [i \in 1..Len(recommendations) |->
                           AsQuoteItem(recommendations[i])],
                       project_details, now)]

PrimaryNeeds ==
    [equipment_type : {None, <<"andamio">>},
     height_needed : {NoneNum, 7},
     capacity_needed : {NoneNum},
     quantity : {NoneNum}]

\* needs that ask for something else than any primary need does
OtherNeeds ==
    {<<>>,
     <<[EquipmentNeed EXCEPT !.equipment_type = <<"escalera">>]>>,
     <<[EquipmentNeed EXCEPT !.equipment_type = <<"plataforma_elevadora">>,
                             !.height_needed = 11],
       [EquipmentNeed EXCEPT !.height_needed = 9]>>}

PrimaryInit ==
    /\ AgentIdle
    /\ ServiceIdle
    /\ result = NoState
    /\ \E primary_need \in PrimaryNeeds, others \in OtherNeeds,
          surface_type \in {None, <<"concreto">>},
          duration_days \in {NoneNum, 2},
          rows \in RecommenderCatalogs :
          call = [op |-> "recommend and quote",
                  equipment_needs |-> <<primary_need>> \o others,
                  site_conditions |-> [surface_type |-> surface_type],
                  project_details |-> [project_type |-> None,
                                       location |-> None,
                                       duration_days |-> duration_days,
                                       start_date |-> NoneNum],
                  rows |-> rows,
                  alone |-> NoState]

\* the two computations on the first need alone
QuotePrimaryNeedAlone ==
    /\ call.op = "recommend and quote"
    /\ call.alone = NoState
    /\ call' = [call EXCEPT !.alone =
                   RecommendAndQuote(<<call.equipment_needs[1]>>,
                                     call.site_conditions,
                                     call.project_details, call.rows)]
    /\ UNCHANGED <<agent_vars, service_vars, result>>

\* the two computations on the whole list
QuoteAllNeeds ==
    /\ call.op = "recommend and quote"
    /\ result = NoState
    /\ result' = RecommendAndQuote(call.equipment_needs,
                                   call.site_conditions,
                                   call.project_details, call.rows)
    /\ UNCHANGED <<agent_vars, service_vars, call>>

PrimaryNext ==
    \/ QuotePrimaryNeedAlone
    \/ QuoteAllNeeds

PrimarySpec == PrimaryInit /\ [][PrimaryNext]_vars

-----------------------------------------------------------------------------
(* Properties *)

\* node has just returned: it is the step that appends it to path
Ran(node) == path' = Append(path, node)

LastNode == IF path = <<>> THEN "none" ELSE path[Len(path)]

NoKeyword(message) ==
    /\ ~AnyKeyword(message, quote_keywords)
    /\ ~AnyKeyword(message, technical_keywords)
    /\ ~AnyKeyword(message, contact_keywords)

\* the entries conversation_history gained since the turn began
NewMessages ==
    SubSeq(state.conversation_history,
           Len(began.state.conversation_history) + 1,
           Len(state.conversation_history))

ExternalFailures == {"APIConnectionError", "OperationalError"}

\* C1: every turn reaches END because a node ends it or waits for the user;
\* no turn is stopped only because nodes kept selecting a next node until
\* the graph run gave up (GraphRecursionError).
C1_NoTurnRunsIntoTheRecursionLimit == exc # "GraphRecursionError"

\* C2: a turn that starts at greeting, without the intervention flag, with a
\* message of no keyword family and no project type known or extracted, and
\* in which no external call fails, goes message_router ->
\* information_gatherer and ends at gathering_basic_info, flag still unset,
\* with exactly one new assistant message: the project-type question.
C2_GreetingTurnAsksProjectTypeOnce ==
    (/\ pc = "returned"
     /\ began.state.conversation_stage = "greeting"
     /\ ~began.state.needs_human_intervention
     /\ NoKeyword(began.state.last_message)
     /\ began.state.project_details.project_type = None
     /\ _extract_with_llm("project_type", llm) = None
     /\ exc \notin ExternalFailures)
    => /\ Len(path) >= 2
       /\ path[1] = "message_router"
       /\ path[2] = "information_gatherer"
       /\ state.conversation_stage = "gathering_basic_info"
       /\ ~state.needs_human_intervention
       /\ NewMessages =
            <<ConversationMessage("assistant",
                                  _generate_contextual_question("project_type"))>>

RoutedNodes ==
    {"message_router", "information_gatherer", "equipment_advisor",
     "quote_calculator", "conversation_manager"}

C4_FinishedStagesEndTheTurn ==
    [][\A node \in Nodes :
          (/\ Ran(node)
           /\ ~state'.needs_human_intervention
           /\ state'.next_action # "end"
           /\ state'.conversation_stage \in {"completed", "escalated"})
              => pc' \notin Nodes]_vars

\* C5: the next_action a node writes, and the value its routing function
\* returns, is a key of that node's path map (or END).
C5_NextActionIsAnEdge ==
    [][\A node \in Nodes :
          Ran(node) => /\ state'.next_action \in Edges(node)
                       /\ Route(node, state') \in Edges(node) \cup {END}]_vars

\* C6: when the graph run raised, process_message returns a state with
\* needs_human_intervention true, stage escalated, next_action "end" and an
\* escalation_reason that contains the exception message.
C6_ExceptionBecomesEscalation ==
    (pc = "returned" /\ exc # NoExc)
    => /\ state.needs_human_intervention
       /\ state.conversation_stage = "escalated"
       /\ state.next_action = "end"
       /\ \E i \in 1..Len(state.escalation_reason) :
             state.escalation_reason[i] = exc

C6_Witness ==
    /\ pc = "returned"
    /\ exc = "TypeError"
    /\ began.state.conversation_stage # "escalated"
    /\ ~began.state.needs_human_intervention

\* C7: when one of the five validated keys is absent or None, process_message
\* runs no node and returns needs_human_intervention true, stage escalated,
\* next_action "end" and an escalation_reason.
C7_InvalidStateGetsFullFallback ==
    (pc = "returned" /\ keys # AllPresent)
    => /\ path = <<>>
       /\ exc = NoExc
       /\ state.needs_human_intervention
       /\ state.conversation_stage = "escalated"
       /\ state.next_action = "end"
       /\ state.escalation_reason # None

\* text is a hand-off message with the contact details
IsHandOff(text) ==
    /\ \E i \in 1..Len(text) : text[i] = support_phone
    /\ \E i \in 1..Len(text) : text[i] = support_email

\* C8: after a turn that ended escalated, the reply sent to the user is a
\* hand-off message with contact details that was appended in that turn.
C8_EscalatedTurnRepliesWithHandOff ==
    (/\ pc = "idle"
     /\ turn > 0
     /\ state.conversation_stage = "escalated")
    => /\ IsHandOff(reply)
       /\ \E i \in 1..Len(NewMessages) :
             /\ NewMessages[i].role = "assistant"
             /\ NewMessages[i].content = reply

\* C9: when the recommender returns an empty list, equipment_advisor sets
\* needs_human_intervention, records a reason, writes next_action
\* escalation_handler, leaves stage and selected_equipment as they were, and
\* the next node is escalation_handler.
C9_NoEquipmentEscalates ==
    [][(/\ Ran("equipment_advisor")
        /\ get_recommendations(state.equipment_needs, state.site_conditions,
                               state.project_details, db) = <<>>)
       => /\ state'.needs_human_intervention
          /\ state'.escalation_reason # None
          /\ state'.next_action = "escalation_handler"
          /\ state'.conversation_stage = state.conversation_stage
          /\ state'.selected_equipment = state.selected_equipment
          /\ pc' = "escalation_handler"]_vars

C9_Witness ==
    /\ LastNode = "equipment_advisor"
    /\ pc = "escalation_handler"
    /\ state.equipment_needs # <<>>
    /\ state.selected_equipment = <<>>
    /\ state.conversation_stage = "equipment_recommendation"

\* number of times node occurs in path
Runs(node) == Cardinality({i \in 1..Len(path) : path[i] = node})

IsPrefix(a, b) == Len(a) <= Len(b) /\ SubSeq(b, 1, Len(a)) = a

\* C12: conversation_history is append-only.  Every step of a handler, a
\* node or the turn-boundary fallback leaves the history it found as a
\* prefix of the history it leaves, and so does every complete turn,
\* including the turns ended by a fallback.
C12_HistoryIsAppendOnly ==
    /\ [][IF pc = "idle"
          THEN IsPrefix(create_or_get_conversation.conversation_history,
                        state'.conversation_history)
          ELSE IsPrefix(state.conversation_history,
                        state'.conversation_history)]_vars
    /\ [](pc = "returned"
            => IsPrefix(began.state.conversation_history,
                        state.conversation_history))

C12_Witness ==
    /\ pc = "returned"
    /\ exc = "TypeError"
    /\ began.state.conversation_history # <<>>
    /\ Len(state.conversation_history)
          > Len(began.state.conversation_history) + 1


\* C13: conversation_stage always holds one of the nine enumerated values,
\* and a handler hands the state it obtained from the conversation service
\* to the graph with the stage it found: only nodes and the turn-boundary
\* fallback assign conversation_stage.
C13_OnlyTheGraphSetsTheStage ==
    /\ [](state.conversation_stage \in Stages)
    /\ [][pc = "idle"
          => state'.conversation_stage
                = create_or_get_conversation.conversation_stage]_vars


\* C14: when the remote store is not configured, or the request that saves
\* the state fails, the state handed to save_state is afterwards in the
\* in-process map, and a load of the same conversation id returns it,
\* whether or not the remote store can be reached by then.
C14_SaveFallsBackToMemory ==
    [][(/\ call'.op = "handle_message"
        /\ (redis_client = "none" \/ ~call'.set_ok))
       => \A id \in ConversationIds :
             id = result'.session_id
             => /\ HasEntry(memory_cache', id)
                /\ \A reachable \in BOOLEAN :
                      StateManager_load_state(id, reachable)' = result']_vars


Lookups == {"start_command", "handle_message", "reset_command"}

\* C16: create_or_get_conversation returns the stored state when the user
\* and chat have an active conversation last updated less than 24 hours
\* ago; once 24 hours have elapsed since that update it creates a new
\* conversation and returns its initial state: a new session_id, stage
\* greeting, empty history, needs_human_intervention false.  (Resumption is
\* required only of lookups whose request to the store got through.)
C16_ResumeUntilStale ==
    (call.op \in Lookups /\ call.active # 0)
    => /\ (call.elapsed < StaleAfter /\ call.stored # NoState /\ call.get_ok)
            => call.returned = call.stored
       /\ call.elapsed >= StaleAfter
            => /\ call.created
               /\ call.returned.session_id # call.active
               /\ call.returned
                     = InitialSessionState(call.returned.session_id)


\* what the next message or command after a reset finds: a conversation
\* created for it, in its initial state, under another session_id
NextLookupIsFresh ==
    \A get_ok \in BOOLEAN :
        LET found == ConversationService_create_or_get_conversation(get_ok)
        IN  /\ found.created
            /\ found.state = InitialSessionState(found.state.session_id)
            /\ found.state.session_id # result.session_id

C15_SerializationRoundTrips ==
    call.op = "_deserialize_state" => result = call.state


\* the structured fields of a state, by name; a field of a need that is
\* not there yet is unset
TextFields(s) ==
    [project_type |-> s.project_details.project_type,
     location |-> s.project_details.location,
     equipment_type |-> IF s.equipment_needs = <<>> THEN None
                        ELSE s.equipment_needs[1].equipment_type,
     surface_type |-> s.site_conditions.surface_type,
     phone |-> s.client_info.phone,
     email |-> s.client_info.email]

NumberFields(s) ==
    [duration_days |-> s.project_details.duration_days,
     height_needed |-> IF s.equipment_needs = <<>> THEN NoneNum
                       ELSE s.equipment_needs[1].height_needed,
     capacity_needed |-> IF s.equipment_needs = <<>> THEN NoneNum
                         ELSE s.equipment_needs[1].capacity_needed]

\* C18: extraction never overwrites a structured field that holds a value:
\* every field set before extraction has the same value after it.
C18_ExtractionKeepsSetFields ==
    (call.op = "_extract_all_possible_info" /\ call.done)
    => /\ \A f \in DOMAIN TextFields(call.state) :
             TextFields(call.state)[f] # None
             => TextFields(result)[f] = TextFields(call.state)[f]
       /\ \A f \in DOMAIN NumberFields(call.state) :
             NumberFields(call.state)[f] # NoneNum
             => NumberFields(result)[f] = NumberFields(call.state)[f]


\* the multiplier of the claim: 1.2 exactly when the start date is set and
\* is a Saturday or a Sunday
ClaimedMultiplier(start_date) ==
    IF start_date # NoneNum /\ weekday(start_date) \in {5, 6} THEN 12 ELSE 10

\* the total of the claim, from the unrounded components
ClaimedTotal(selected_equipment, project_details) ==
    LET subtotal == equipment_subtotal_of(selected_equipment)
        delivery == _calculate_delivery_cost(project_details.location)
        setup == _calculate_setup_cost(selected_equipment)
        insurance == (subtotal * 5) \div 100
        tax == ((subtotal + delivery + setup) * 19) \div 100
    IN  round2(((subtotal + delivery + setup + insurance + tax)
                * ClaimedMultiplier(project_details.start_date)) \div 10)

\* C19: every quote of calculate_quote has total_amount = round((subtotal +
\* delivery + setup + insurance + tax) * m, 2) on the unrounded components,
\* insurance 5% of the subtotal, tax 19% of subtotal + delivery + setup, m
\* 1.2 exactly on a set weekend start date and 1.0 otherwise.
C19_TotalIsTheScaledSum ==
    (call.op = "pricing")
    => \A i \in 1..Len(call.quotes) :
          call.quotes[i].total_amount
              = ClaimedTotal(call.given.selected_equipment,
                             call.given.project_details)

\* a weekend quote whose total is not what the rounded components give
C19_Witness ==
    /\ call.op = "pricing"
    /\ Len(call.quotes) > 0
    /\ call.given.project_details.start_date = 5
    /\ LET q == call.quotes[1]
       IN  q.total_amount
               # round2(((q.equipment_subtotal + q.delivery_cost + q.setup_cost
                          + q.insurance_cost + q.tax_amount) * 12) \div 10)

SameComponents(a, b) ==
    /\ a.equipment_subtotal = b.equipment_subtotal
    /\ a.delivery_cost = b.delivery_cost
    /\ a.setup_cost = b.setup_cost
    /\ a.insurance_cost = b.insurance_cost
    /\ a.tax_amount = b.tax_amount
    /\ a.total_amount = b.total_amount
    /\ a.currency = b.currency

\* two calls of calculate_quote on the same inputs give the same components
\* and leave the inputs as they were given
CalculateQuoteIsIdempotent ==
    (call.op = "pricing")
    => /\ \A i, j \in 1..Len(call.quotes) :
             SameComponents(call.quotes[i], call.quotes[j])
       /\ call.selected_equipment = call.given.selected_equipment
       /\ call.project_details = call.given.project_details

\* C20: pricing is idempotent and re-entrant: calls of calculate_quote on
\* the same inputs return the same components and do not modify the
\* inputs, and each run of quote_calculator on the unchanged state leaves
\* in pricing_info a quote with those same components.
C20_PricingIsIdempotent ==
    (call.op = "pricing")
    => /\ CalculateQuoteIsIdempotent
       /\ \A i \in 1..Len(call.runs) :
             /\ call.runs[i].pricing_info # <<>>
             /\ SameComponents(call.runs[i].pricing_info,
                               calculate_quote(call.given.selected_equipment,
                                               call.given.project_details, 0))


\* a row meets the claim's conditions for the need: available, in stock,
\* and within each stated filter
MeetsNeed(row, need) ==
    /\ row.is_available
    /\ row.quantity_available > 0
    /\ (need.height_needed # NoneNum => row.max_height >= need.height_needed)
    /\ (need.capacity_needed # NoneNum
            => row.max_capacity >= need.capacity_needed)
    /\ (need.equipment_type # None
            => row.equipment_type = need.equipment_type)

\* C21: get_recommendations returns at most 3 items in non-increasing order
\* of score, each available, in stock and within every stated filter of the
\* primary need; the result is empty exactly when no row qualifies, and no
\* qualifying row left out scores strictly higher than a returned one.
C21_RecommendationsAreTheBestThree ==
    (call.op = "get_recommendations" /\ call.done
     /\ call.equipment_needs # <<>>)
    => LET need == call.equipment_needs[1]
           rows == call.rows
           Scored(row) == Recommendation(row, need, call.site_conditions,
                                         call.project_details)
           Returned == {result[i].id : i \in 1..Len(result)}
       IN  /\ Len(result) <= 3
           /\ \A i, j \in 1..Len(result) :
                 i < j => ~Higher(result[j], result[i])
           /\ \A i \in 1..Len(result) :
                 \E k \in 1..Len(rows) :
                    /\ rows[k].id = result[i].id
                    /\ MeetsNeed(rows[k], need)
                    /\ result[i] = Scored(rows[k])
           /\ (result = <<>>)
                 <=> ~\E k \in 1..Len(rows) : MeetsNeed(rows[k], need)
           /\ \A k \in 1..Len(rows) :
                 (MeetsNeed(rows[k], need) /\ rows[k].id \notin Returned)
                 => \A i \in 1..Len(result) :
                       ~Higher(Scored(rows[k]), result[i])

\* more than three rows qualified, with different scores, and three came
\* back
C21_Witness ==
    /\ call.op = "get_recommendations"
    /\ call.done
    /\ call.equipment_needs # <<>>
    /\ Len(result) = 3
    /\ Higher(result[1], result[3])
    /\ Cardinality({k \in 1..Len(call.rows) :
                       MeetsNeed(call.rows[k], call.equipment_needs[1])}) > 3
    /\ \E k \in 1..Len(call.rows) : ~call.rows[k].is_available


\* the supplied fields of a request that are invalid
InvalidFields(request_data) ==
    {i \in 1..Len(RequestChecks(request_data)) :
        /\ RequestChecks(request_data)[i].present
        /\ RequestChecks(request_data)[i].outcome # Valid}

\* C22: validate_complete_request validates every supplied field on its
\* own: the list it returns holds one error string for each invalid field.
C22_OneErrorPerInvalidField ==
    (call.op = "validate_complete_request" /\ call.done)
    => /\ Len(result) = Cardinality(InvalidFields(call.request_data))
       /\ \A i \in InvalidFields(call.request_data) :
             \E k \in 1..Len(result) :
                result[k] = RequestChecks(call.request_data)[i].outcome


\* the handlers that invoke the agent graph
GraphHandlers == {"handle_message", "quote_command"}

\* C23: the graph is invoked for a user only after that user passed the
\* rate-limit check and was counted; a rejected message invokes nothing and
\* leaves the stored conversation state as it was.
C23_EveryTurnPassesTheLimiter ==
    (call.op \in GraphHandlers)
    => /\ call.invoked
             => (call.checked /\ ~call.limited /\ call.counted)
       /\ (call.checked /\ call.limited)
             => (~call.invoked /\ memory_cache = call.stored_before)

\* the part that holds: a message the limiter rejects runs nothing and
\* changes no stored state
RejectedMessageRunsNothing ==
    (call.op = "handle_message" /\ call.limited)
    => (~call.invoked /\ memory_cache = call.stored_before)

\* a message was rejected
RejectedMessage == call.op = "handle_message" /\ call.limited


\* the state a message turn of a new session holds when it ran alone
RanAlone(id, text) ==
    GraphRan([InitialSessionState(id) EXCEPT !.conversation_history =
                  <<ConversationMessage("user", text)>>], text)

\* C24: sessions are isolated: a step of a turn changes neither the stored
\* state nor the in-flight state of another session, and the state stored
\* for a session whose only turn has finished is the one that turn leaves
\* when it runs alone.
C24_SessionsAreIsolated ==
    [][\A t \in Slots :
          (call'.last = t /\ call'.turns[t] # call.turns[t])
          => /\ \A id \in ConversationIds :
                   id # call'.turns[t].state.session_id
                   => (StoredEntry(id))' = StoredEntry(id)
             /\ \A u \in Slots \ {t} : call'.turns[u] = call.turns[u]
             /\ \A own \in ConversationIds :
                   (/\ call'.turns[3].pc = "saved"
                    /\ own = call'.turns[3].state.session_id)
                   => /\ call'.turns[3].state = RanAlone(own, SlotText[3])
                      /\ (StoredEntry(own))'
                            = IF call'.turns[3].saved
                              THEN RanAlone(own, SlotText[3])
                              ELSE NoState]_vars

\* the turn of user b was saved while a turn of user a was in flight, after
\* the other turn of user a had saved and the reset had run
C24_Witness ==
    /\ call.op = "interleave"
    /\ call.turns[3].pc = "saved"
    /\ call.turns[3].saved
    /\ call.turns[3].others \cap {1, 2} # {}
    /\ call.turns[4].pc = "saved"
    /\ \E t \in {1, 2} : call.turns[t].pc = "saved" /\ call.turns[t].saved

\* the texts of the messages of a history
Contents(history) == {history[i].content : i \in 1..Len(history)}

\* C25: two turns of one session that both load before either saves: once
\* both have saved, the stored state is the one the later save wrote, and
\* the messages of the turn that saved first are not in its history.
C25_LastWriterWins ==
    (call.op = "interleave")
    => \A e \in {1, 2} :
          LET l == 3 - e
              first == call.turns[e]
              later == call.turns[l]
          IN  (/\ first.pc = "saved"
               /\ later.pc = "saved"
               /\ first.order < later.order
               /\ l \in first.others
               /\ later.saved
               /\ first.state.session_id = later.state.session_id
               /\ (call.turns[4].pc = "idle"
                      \/ call.turns[4].order < later.order))
              => /\ StoredEntry(later.state.session_id) = later.state
                 /\ Contents(StoredEntry(later.state.session_id)
                                 .conversation_history)
                       \cap {SlotText[e], <<"respuesta">> \o SlotText[e]} = {}

\* both turns of user a loaded before either saved, both saves wrote, and
\* the earlier one had stored its messages
C25_Witness ==
    /\ call.op = "interleave"
    /\ \E e \in {1, 2} :
          /\ call.turns[e].pc = "saved"
          /\ call.turns[e].saved
          /\ call.turns[3 - e].pc = "saved"
          /\ call.turns[3 - e].saved
          /\ call.turns[e].order < call.turns[3 - e].order
          /\ (3 - e) \in call.turns[e].others
          /\ call.turns[e].state.session_id
                = call.turns[3 - e].state.session_id
          /\ call.turns[4].pc = "idle"


\* the node and the stage the claim gives for a message at a stage
ClaimedRoute(message, stage) ==
    IF \E i \in 1..Len(message) : message[i] \in quote_keywords
    THEN <<"information_gatherer", "gathering_basic_info">>
    ELSE IF \E i \in 1..Len(message) : message[i] \in technical_keywords
    THEN <<"information_gatherer", "gathering_technical_info">>
    ELSE IF \E i \in 1..Len(message) : message[i] \in contact_keywords
    THEN <<"conversation_manager", stage>>
    ELSE IF stage = "greeting"
    THEN <<"information_gatherer", "gathering_basic_info">>
    ELSE <<CASE stage \in {"gathering_basic_info", "gathering_technical_info"}
                   -> "information_gatherer"
             [] stage = "equipment_recommendation" -> "equipment_advisor"
             [] stage = "quote_generation" -> "quote_calculator"
             [] OTHER -> "conversation_manager",
           stage>>

\* C26: message_router takes the first matching keyword family in the order
\* quote, technical, contact, then the greeting rule, then the stage table
\* with conversation_manager as default, and changes nothing but
\* next_action and conversation_stage.
C26_RouterClassifiesInOrder ==
    (call.op = "message_router" /\ call.done)
    => /\ <<result.next_action, result.conversation_stage>>
             = ClaimedRoute(call.state.last_message,
                            call.state.conversation_stage)
       /\ result = [call.state EXCEPT
                       !.next_action = result.next_action,
                       !.conversation_stage = result.conversation_stage]

\* a message with a quote word and a technical word, routed at a stage
\* past the greeting with the intervention flag set
C26_Witness ==
    /\ call.op = "message_router"
    /\ call.done
    /\ call.state.last_message = <<"precio", "del", "andamio">>
    /\ call.state.conversation_stage = "quote_review"
    /\ call.state.needs_human_intervention
    /\ result.conversation_stage = "gathering_basic_info"


\* height, equipment type and surface type are all set
TechnicalInfoSet(s) ==
    /\ s.equipment_needs # <<>>
    /\ Truthy(s.equipment_needs[1].height_needed)
    /\ s.equipment_needs[1].equipment_type # None
    /\ s.site_conditions.surface_type # None

\* information_gatherer ran and returned a state
GathererReturned ==
    /\ pc = "information_gatherer"
    /\ path' = Append(path, "information_gatherer")

\* C27: information_gatherer with nothing missing moves basic info to
\* technical info (and loops to itself) and technical info to equipment
\* recommendation (and goes to equipment_advisor); it hands over to
\* equipment_advisor only when it ran at gathering_technical_info with
\* height, equipment type and surface type set, at no other stage.
C27_GathererAdvancesOnlyFromTechnicalInfo ==
    [][GathererReturned
       => LET nothing_missing ==
                  _identify_missing_information(
                      [state' EXCEPT !.conversation_stage =
                                         state.conversation_stage]) = <<>>
          IN  /\ (state.conversation_stage = "gathering_basic_info"
                     /\ nothing_missing)
                    => /\ state'.conversation_stage = "gathering_technical_info"
                       /\ state'.next_action = "information_gatherer"
              /\ (state.conversation_stage = "gathering_technical_info"
                     /\ nothing_missing)
                    => /\ state'.conversation_stage = "equipment_recommendation"
                       /\ state'.next_action = "equipment_advisor"
              /\ (state'.next_action = "equipment_advisor")
                    => /\ state.conversation_stage = "gathering_technical_info"
                       /\ TechnicalInfoSet(state')]_vars

\* C28: from a fresh greeting state, equipment_advisor is only ever entered
\* with height, equipment type and surface type set.
C28_AdvisorRunsOnlyWithTechnicalInfo ==
    (pc = "equipment_advisor") => TechnicalInfoSet(state)


BasicInfoSet(s) ==
    /\ s.project_details.project_type # None
    /\ s.project_details.location # None
    /\ Truthy(s.project_details.duration_days)

\* gathering_technical_info and the stages after it
TechnicalOrLater == Stages \ {"greeting", "gathering_basic_info"}

\* the stage becomes gathering_technical_info only with the basic info set
TechnicalInfoStageNeedsBasicInfo ==
    (state'.conversation_stage = "gathering_technical_info"
        /\ state.conversation_stage # "gathering_technical_info")
    => BasicInfoSet(state')

\* the stage does not go back to gathering_basic_info
NoReturnToBasicInfo ==
    ~(/\ state.conversation_stage \in TechnicalOrLater
      /\ state'.conversation_stage = "gathering_basic_info")

\* quote_calculator is entered only with duration_days set
QuoteNeedsDuration ==
    (pc = "quote_calculator") => Truthy(state.project_details.duration_days)

\* C29: the stage becomes gathering_technical_info only with project_type,
\* location and duration_days set, a conversation that has reached
\* gathering_technical_info or a later stage never goes back to
\* gathering_basic_info, and no quote is computed with duration_days unset.
C29_StagesAreOrdered ==
    [][/\ TechnicalInfoStageNeedsBasicInfo
       /\ NoReturnToBasicInfo
       /\ QuoteNeedsDuration']_vars

\* what the catalog gives equipment_advisor for the state it runs on
Recommended ==
    get_recommendations(state.equipment_needs, state.site_conditions,
                        state.project_details, db)

\* equipment_advisor returning with a non-empty list stores it, sets the
\* stage and hands over to quote_calculator
AdvisorHandsOverToQuoteCalculator ==
    (pc = "equipment_advisor" /\ pc' # "except" /\ Recommended # <<>>)
    => /\ state'.selected_equipment = Recommended
       /\ state'.conversation_stage = "quote_generation"
       /\ pc' = "quote_calculator"

\* quote_calculator stores the quote, sets the stage and hands over to
\* conversation_manager
QuoteCalculatorHandsOverToManager ==
    (pc = "quote_calculator")
    => /\ state'.pricing_info # state.pricing_info
       /\ state'.conversation_stage = "quote_review"
       /\ pc' = "conversation_manager"

\* the turn in which equipment_advisor stored a list is over
QuoteTurnEnds ==
    /\ pc' = "returned"
    /\ path # <<>>
    /\ path[Len(path)] = "equipment_advisor"
    /\ state.conversation_stage = "quote_generation"

\* C30: when the Recommender returns a non-empty list, equipment_advisor
\* stores it as selected_equipment, sets stage quote_generation and routes
\* to quote_calculator; quote_calculator stores pricing_info, sets stage
\* quote_review and routes to conversation_manager; and that turn ends with
\* conversation_stage quote_review and needs_human_intervention false.
C30_QuoteTurnEndsInReview ==
    [][/\ AdvisorHandsOverToQuoteCalculator
       /\ QuoteCalculatorHandsOverToManager
       /\ QuoteTurnEnds =>
              /\ state'.conversation_stage = "quote_review"
              /\ ~state'.needs_human_intervention]_vars

\* C31: extraction is idempotent: with the extractor giving the same
\* answers, a second run on the same message and the state the first run
\* left changes no field.
C31_ExtractionIsIdempotent ==
    (call.op = "_extract_all_possible_info again") => result = call.once

\* a second run after a first one that wrote fields, a need record included
C31_Witness ==
    /\ call.op = "_extract_all_possible_info again"
    /\ call.once # call.state
    /\ call.state.equipment_needs = <<>>
    /\ call.once.equipment_needs # <<>>

\* what the LLM pass writes to height_needed and duration_days, if anything
LLMHeight(answers) ==
    LET value == _extract_with_llm("height", answers)
    IN  IF value # None /\ IsFloat(value) THEN NumVal(value[1]) ELSE NoneNum

LLMDuration(answers) ==
    LET value == _extract_with_llm("duration", answers)
    IN  IF value # None THEN FirstNumber(value) ELSE NoneNum

\* C32: within one extraction call the first writer of height_needed or
\* duration_days wins: the value the first pass (the LLM pass) wrote is the
\* value the call leaves, whatever the other pass detects in the message.
C32_FirstWriterWins ==
    (call.op = "_extract_all_possible_info" /\ call.done)
    => /\ LLMHeight(call.answers) # NoneNum
          => NumberFields(result).height_needed = LLMHeight(call.answers)
       /\ LLMDuration(call.answers) # NoneNum
          => NumberFields(result).duration_days = LLMDuration(call.answers)

\* the numbers the message gives followed by the word "metros"
MetrosNumbers(message) ==
    {NumVal(message[i]) : i \in MatchPositions(message, {"metros"})}

\* C33: for every message with a token sequence "<number> metros",
\* extraction sets equipment_needs[0].height_needed to exactly that number,
\* creating the need record if the list is empty, also when an earlier
\* number is followed by a word that begins with "m".
C33_HeightIsTheMetrosNumber ==
    (/\ call.op = "_extract_all_possible_info"
     /\ call.done
     /\ MetrosNumbers(call.message) # {})
    => /\ result.equipment_needs # <<>>
       /\ result.equipment_needs[1].height_needed
              \in MetrosNumbers(call.message)

\* project_type, location and duration_days all hold a value, zero included
BasicInfoGiven(s) ==
    /\ s.project_details.project_type # None
    /\ s.project_details.location # None
    /\ s.project_details.duration_days # NoneNum

\* C34: at gathering_basic_info with project_type, location and
\* duration_days all set (any set value, duration_days = 0 included) nothing
\* is reported missing; at gathering_technical_info height, equipment_type
\* and surface_type are reported, in that order, when there is no need
\* record and no surface.
C34_MissingInformationIsWhatIsUnset ==
    (call.op = "_identify_missing_information" /\ call.done)
    => /\ (/\ call.state.conversation_stage = "gathering_basic_info"
           /\ BasicInfoGiven(call.state))
          => result = <<>>
       /\ (/\ call.state.conversation_stage = "gathering_technical_info"
           /\ call.state.equipment_needs = <<>>
           /\ call.state.site_conditions.surface_type = None)
          => result = <<"height", "equipment_type", "surface_type">>

\* C35: only the primary need is consulted: a list of needs and its first
\* need alone, with the same site conditions, project details and catalog,
\* get the same recommendations and a quote with the same components.
C35_OnlyThePrimaryNeedCounts ==
    (/\ call.op = "recommend and quote"
     /\ call.alone # NoState
     /\ result # NoState)
    => /\ result.recommendations = call.alone.recommendations
       /\ SameComponents(result.quote, call.alone.quote)

\* both were computed for a list with further needs and gave a list
C35_Witness ==
    /\ call.op = "recommend and quote"
    /\ call.alone # NoState
    /\ result # NoState
    /\ Len(call.equipment_needs) > 1
    /\ Len(result.recommendations) > 1
    /\ result.quote.equipment_subtotal > 0

\* C36: in every state process_message returns, needs_human_intervention
\* is true exactly when conversation_stage is escalated.
C36_InterventionIffEscalated ==
    (pc = "returned")
    => (state.needs_human_intervention
            <=> state.conversation_stage = "escalated")

\* the flag is never set without a reason
FlagHasReason(s) ==
    s.needs_human_intervention => s.escalation_reason # None

\* C37: in every reachable state needs_human_intervention = true implies
\* that escalation_reason is set, in the state of the running turn and in
\* the stored one, and escalation_handler is only executed on a state whose
\* needs_human_intervention is already true.
C37_EscalationHasAReason ==
    /\ FlagHasReason(state)
    /\ store # NoState => FlagHasReason(store)
    /\ (pc = "escalation_handler") => state.needs_human_intervention

\* escalation_handler is about to run, in a conversation that was already
\* escalated in an earlier turn
C37_Witness ==
    /\ pc = "escalation_handler"
    /\ store # NoState
    /\ store.needs_human_intervention
    /\ state.escalation_reason # None

\* stages no code assigns
UnusedStages == {"scheduling", "completed"}

\* C38: from a freshly created greeting state no sequence of messages,
\* commands and turns produces conversation_stage scheduling or completed,
\* in the state of a turn or in the stored one, so no turn ends through
\* the completed-stage test of a routing function.
C38_SchedulingAndCompletedAreUnreachable ==
    /\ state.conversation_stage \notin UnusedStages
    /\ store # NoState => store.conversation_stage \notin UnusedStages

\* a later turn of a stored conversation has ended after nodes ran
C38_Witness ==
    /\ pc = "returned"
    /\ turn > 1
    /\ Len(path) > 1
    /\ store # NoState

=============================================================================
